---- MODULE Spec2Model ----
(***************************************************************************)
(* Model of the schema-inference engine of metadata-mgmt:                  *)
(*   schema_generation/jsonl/jsonl_schema_generator.py  (shape normalizer, *)
(*       schema merger, line-delimited JSON driver)                        *)
(*   schema_generation/csv/csv_schema_generator.py      (type-set          *)
(*       aggregator for tabular sources)                                   *)
(*   schema_generation/common/data_infer.py             (value classifier) *)
(*                                                                         *)
(* Encoding of Python values.                                              *)
(*   str            a sequence of one-character strings, "" is <<>>        *)
(*   None           [none |-> TRUE]                                        *)
(*   a type tag     [tag |-> "string"]           (a Python str used as tag)*)
(*   a list of tags [elems |-> <<v1, ..., vn>>]  (a Python list; members   *)
(*                  are tags, None or lists again, as the code can nest)   *)
(*   dict           a function from its keys to its values; {} is <<>>.    *)
(*                  Property maps are keyed by str (character sequences),  *)
(*                  property schemas by the literal names "type",          *)
(*                  "description", "business_type", "properties", "items". *)
(* Python compares dicts regardless of key order, as function equality     *)
(* does.  _merge_properties is modelled by the value it returns.           *)
(***************************************************************************)
EXTENDS Integers, Sequences, FiniteSets, TLC

VARIABLES
    plist,      \* SpecMerge: properties_list handed to _merge_properties
    ubt,        \* SpecMerge: use_business_types
    nary,       \* result of the N-ary call _merge_properties(plist)
    foldAcc,    \* accumulator of the pairwise left-to-right fold
    foldIdx,    \* next element of plist the pairwise fold takes (0: not started)
    rinner,     \* _merge_properties([B, C]) of the right-nested grouping
    router,     \* _merge_properties([A, rinner])
    perm,       \* the permutation of plist last merged
    permRes,    \* _merge_properties of plist permuted by perm
    done,       \* which of the calls above have returned
    plistAfter, \* what the maps of plist hold after the N-ary call
    pool,       \* SpecJsonl: the object records the file's lines are drawn from
    lines,      \* the lines of the file read so far
    sample_rows,            \* generate_jsonl_schema's argument
    jsonl_business_types,   \* generate_jsonl_schema's use_business_types
    row_count,              \* object records processed
    total_rows,             \* lines json.loads decoded
    object_schemas,         \* property maps of the object records, in order
    all_field_presence,     \* dict path -> count, as <<path, count>> in insertion order
    schema,                 \* the dict generate_jsonl_schema returned
    pc,                     \* "reading" in the loop over the file, "returned" after it
    headers,                \* SpecCsv: reader.fieldnames
    csv_sample_rows,        \* generate_csv_schema's sample_rows
    csv_lines,              \* data lines the reader has consumed
    csv_row_count,          \* row_count: rows sampled
    column_business_types,  \* dict header -> set of business types
    column_data_types,      \* dict header -> set of data types
    sampled,                \* header -> the values row.get(header, '') returned (history)
    csv_schema,             \* the dict generate_csv_schema returned
    csv_pc,                 \* "reading" in the loop over the rows, "returned" after it
    infer_value,            \* SpecInfer: the argument of infer_types
    infer_result,           \* the pair infer_types returned
    infer_pc,               \* "called" in the call, then "returned" or "raised"
    pq_fields,              \* SpecParquet: the fields of parquet_schema: name, type, nullable
    pq_rows,                \* the rows of df; a cell is None or the text of its value
    pq_sample_rows,         \* generate_parquet_schema's sample_rows
    pq_business_types,      \* generate_parquet_schema's use_business_types
    pq_column_data_types,   \* column_data_types, one key per column processed
    pq_column_business_types, \* column_business_types, one key per column processed
    pq_properties,          \* properties, one key per column processed
    pq_processed,           \* number of fields the loop has processed
    pq_required,            \* required
    pq_schema,              \* the dict generate_parquet_schema returned
    pq_pc,                  \* "columns" in the loop over the fields, "returned" after it
    gs_file,                \* SpecGenerate: the file at generate_schema's file_path
    gs_pyarrow,             \* whether pyarrow can be imported
    gs_file_type,           \* generate_schema's file_type: None or a str
    gs_sample_rows,         \* generate_schema's sample_rows
    gs_business_types,      \* generate_schema's use_business_types
    gs_route,               \* file_type after lines 152-160
    gs_result,              \* the schema generate_schema returned
    gs_error,               \* the type of the exception that left generate_schema
    gs_pc,                  \* "called", "resolved", "generating", then "returned" or "raised"
    lam_event,              \* SpecLambda: lambda_handler's event
    lam_source,             \* the file, or the S3 object, that file_path names
    lam_boto3,              \* whether boto3 can be imported
    lam_temp_file_path,     \* temp_file_path: None or the name of the file in temp_dir
    lam_temp_dir,           \* whether the directory made by mkdtemp exists
    lam_temp_file,          \* whether the file at temp_file_path exists
    lam_status,             \* status_code
    lam_body,               \* response_body, which the return serialises with json.dumps
    lam_pc                  \* "called", "generating", then "returned"

mergeVars == <<plist, ubt, nary, foldAcc, foldIdx, rinner, router, perm, permRes, done,
               plistAfter>>

jsonlVars == <<pool, lines, sample_rows, jsonl_business_types, row_count, total_rows, object_schemas,
               all_field_presence, schema, pc>>

csvVars == <<headers, csv_sample_rows, csv_lines, csv_row_count, column_business_types,
             column_data_types, sampled, csv_schema, csv_pc>>

inferVars == <<infer_value, infer_result, infer_pc>>

parquetVars == <<pq_fields, pq_rows, pq_sample_rows, pq_business_types, pq_column_data_types,
                 pq_column_business_types, pq_properties, pq_processed, pq_required, pq_schema,
                 pq_pc>>

\* the variables of the specifications around the three generators
generateVars == <<gs_file, gs_pyarrow, gs_file_type, gs_sample_rows, gs_business_types,
                  gs_route, gs_result, gs_error, gs_pc>>

lambdaVars == <<lam_event, lam_source, lam_boto3, lam_temp_file_path, lam_temp_dir, lam_temp_file,
                lam_status, lam_body, lam_pc>>

outerVars == <<parquetVars, generateVars, lambdaVars>>

vars == <<mergeVars, jsonlVars, csvVars, inferVars, outerVars>>

\* the variables of a specification that is not running
MergeIdle ==
    /\ plist = <<>>
    /\ ubt = FALSE
    /\ nary = <<>>
    /\ foldAcc = <<>>
    /\ foldIdx = 0
    /\ rinner = <<>>
    /\ router = <<>>
    /\ perm = <<>>
    /\ permRes = <<>>
    /\ done = {}
    /\ plistAfter = <<>>

JsonlIdle ==
    /\ pool = {}
    /\ lines = <<>>
    /\ sample_rows = 0
    /\ jsonl_business_types = FALSE
    /\ row_count = 0
    /\ total_rows = 0
    /\ object_schemas = <<>>
    /\ all_field_presence = <<>>
    /\ schema = <<>>
    /\ pc = "idle"

ParquetIdle ==
    /\ pq_fields = <<>>
    /\ pq_rows = <<>>
    /\ pq_sample_rows = 0
    /\ pq_business_types = FALSE
    /\ pq_column_data_types = <<>>
    /\ pq_column_business_types = <<>>
    /\ pq_properties = <<>>
    /\ pq_processed = 0
    /\ pq_required = <<>>
    /\ pq_schema = <<>>
    /\ pq_pc = "idle"

GenerateIdle ==
    /\ gs_file = <<>>
    /\ gs_pyarrow = FALSE
    /\ gs_file_type = <<>>
    /\ gs_sample_rows = 0
    /\ gs_business_types = FALSE
    /\ gs_route = ""
    /\ gs_result = <<>>
    /\ gs_error = ""
    /\ gs_pc = "idle"

LambdaIdle ==
    /\ lam_event = <<>>
    /\ lam_source = <<>>
    /\ lam_boto3 = FALSE
    /\ lam_temp_file_path = [none |-> TRUE]
    /\ lam_temp_dir = FALSE
    /\ lam_temp_file = FALSE
    /\ lam_status = 0
    /\ lam_body = <<>>
    /\ lam_pc = "idle"

OuterIdle == ParquetIdle /\ GenerateIdle /\ LambdaIdle

InferIdle ==
    /\ infer_value = [str |-> <<>>]
    /\ infer_result = [none |-> TRUE]
    /\ infer_pc = "idle"

CsvIdle ==
    /\ headers = <<>>
    /\ csv_sample_rows = 0
    /\ csv_lines = 0
    /\ csv_row_count = 0
    /\ column_business_types = <<>>
    /\ column_data_types = <<>>
    /\ sampled = <<>>
    /\ csv_schema = <<>>
    /\ csv_pc = "idle"

----------------------------------------------------------------------------
(* Python values *)

None == [none |-> TRUE]

Tag(t) == [tag |-> t]

List(s) == [elems |-> s]

EmptyDict == <<>>

IsList(v) == "elems" \in DOMAIN v

\* Python truthiness of a tag, a list or None
Truthy(v) ==
    /\ v # None
    /\ IsList(v) => v.elems # <<>>
    /\ "tag" \in DOMAIN v => v.tag # ""

\* x in l, for a Python list l
In(x, l) == \E i \in DOMAIN l.elems : l.elems[i] = x

\* l.append(x)
ListAppend(l, x) == [elems |-> Append(l.elems, x)]

\* d.get(k)
Get(d, k) == IF k \in DOMAIN d THEN d[k] ELSE None

\* d.get(k, {})
GetDict(d, k) == IF k \in DOMAIN d THEN d[k] ELSE EmptyDict

\* d[k] = v
Put(d, k, v) == [j \in DOMAIN d \cup {k} |-> IF j = k THEN v ELSE d[j]]

(* str: characters, and the str methods the code calls.  The model's strings
   are ASCII (plus the four non-ASCII currency signs of the currency rule,
   written by their code points); re's \d and \s and str.strip / str.lower
   are modelled on that alphabet. *)

Digit == {"0", "1", "2", "3", "4", "5", "6", "7", "8", "9"}

LowerSeq == << "a", "b", "c", "d", "e", "f", "g", "h", "i", "j", "k", "l", "m",
               "n", "o", "p", "q", "r", "s", "t", "u", "v", "w", "x", "y", "z" >>

UpperSeq == << "A", "B", "C", "D", "E", "F", "G", "H", "I", "J", "K", "L", "M",
               "N", "O", "P", "Q", "R", "S", "T", "U", "V", "W", "X", "Y", "Z" >>

LowerAlpha == {LowerSeq[i] : i \in DOMAIN LowerSeq}

UpperAlpha == {UpperSeq[i] : i \in DOMAIN UpperSeq}

Alpha == LowerAlpha \cup UpperAlpha

AlphaNum == Alpha \cup Digit

Hex == Digit \cup {"a", "b", "c", "d", "e", "f", "A", "B", "C", "D", "E", "F"}

\* \s of re and the characters str.strip() removes
Whitespace == {" ", "\t", "\n", "\r", "\f"}

\* the characters of [\$€£¥₹]
CurrencySign == {"$", "U+20AC", "U+00A3", "U+00A5", "U+20B9"}

\* c.lower()
LowerChar(c) ==
    IF c \in UpperAlpha THEN LowerSeq[CHOOSE i \in DOMAIN UpperSeq : UpperSeq[i] = c] ELSE c

\* s.lower()
Lower(s) == [i \in DOMAIN s |-> LowerChar(s[i])]

\* s[a-1:b] for 1 <= a, b <= len(s); empty when a > b
Slice(s, a, b) == IF a > b THEN <<>> ELSE SubSeq(s, a, b)

\* s.strip()
Strip(s) ==
    LET keep == {i \in DOMAIN s : s[i] \notin Whitespace}
    IN  IF keep = {} THEN <<>>
        ELSE Slice(s, CHOOSE i \in keep : \A j \in keep : i <= j,
                      CHOOSE i \in keep : \A j \in keep : i >= j)

\* c in s
HasChar(s, c) == \E i \in DOMAIN s : s[i] = c

RECURSIVE Without(_, _)
\* re.sub(r'[<chars>]', '', s)
Without(s, chars) ==
    IF s = <<>> THEN <<>>
    ELSE IF Head(s) \in chars THEN Without(Tail(s), chars)
    ELSE <<Head(s)>> \o Without(Tail(s), chars)

RECURSIVE Split(_, _)
\* s.split(sep) for a one-character sep
Split(s, sep) ==
    IF ~HasChar(s, sep) THEN <<s>>
    ELSE LET i == CHOOSE i \in DOMAIN s : s[i] = sep /\ \A j \in 1..(i - 1) : s[j] # sep
         IN  <<Slice(s, 1, i - 1)>> \o Split(Slice(s, i + 1, Len(s)), sep)

\* s.startswith(c), s.endswith(c) for a one-character c
StartsWith(s, c) == s # <<>> /\ s[1] = c

EndsWith(s, c) == s # <<>> /\ s[Len(s)] = c

\* the value of a decimal digit
DigitVal(c) == CHOOSE n \in 0..9 : <<"0", "1", "2", "3", "4", "5", "6", "7", "8", "9">>[n + 1] = c

RECURSIVE IntOf(_)
\* int(s) of a short string of ASCII digits
IntOf(s) == IF s = <<>> THEN 0 ELSE 10 * IntOf(Slice(s, 1, Len(s) - 1)) + DigitVal(s[Len(s)])

----------------------------------------------------------------------------
(* re.match(r'^...$', value) for the patterns of infer_types: a pattern is a
   sequence of items, each a character class with a repetition count.  The
   value matched is stripped, so '$' only matches at its end. *)

Cls(S) == [neg |-> FALSE, set |-> S]

NotCls(S) == [neg |-> TRUE, set |-> S]

\* class{lo,hi}
R(cls, lo, hi) == [cls |-> cls, lo |-> lo, hi |-> hi, open |-> FALSE]

\* class{lo,}
RMany(cls, lo) == [cls |-> cls, lo |-> lo, hi |-> lo, open |-> TRUE]

\* one literal character
Lit(c) == R(Cls({c}), 1, 1)

\* one literal character under re.IGNORECASE
LitI(c) == R(Cls({c, LowerChar(c)} \cup {u \in UpperAlpha : LowerChar(u) = c}), 1, 1)

CharIn(c, cls) == (c \in cls.set) # cls.neg

RECURSIVE MatchFrom(_, _, _, _)
MatchFrom(s, i, pat, k) ==
    IF k > Len(pat) THEN i = Len(s) + 1
    ELSE LET item == pat[k]
             avail == Len(s) - i + 1
             most == IF item.open \/ item.hi > avail THEN avail ELSE item.hi
         IN  \E n \in item.lo..most :
                /\ \A j \in i..(i + n - 1) : CharIn(s[j], item.cls)
                /\ MatchFrom(s, i + n, pat, k + 1)

\* re.match(pattern, s) for an anchored pattern
Match(s, pat) == MatchFrom(s, 1, pat, 1)

RECURSIVE Repeat(_, _)
\* (pat){n}
Repeat(pat, n) == IF n = 0 THEN <<>> ELSE pat \o Repeat(pat, n - 1)

----------------------------------------------------------------------------
(* infer_types, rules 1-9 *)

\* line 23 without '1' and '0'
BooleanLiteralsWordsOnly ==
    { <<"t", "r", "u", "e">>, <<"f", "a", "l", "s", "e">>,
      <<"y", "e", "s">>, <<"n", "o">>, <<"y">>, <<"n">>, <<"t">>, <<"f">> }

\* line 23
BooleanLiterals ==
    { <<"t", "r", "u", "e">>, <<"f", "a", "l", "s", "e">>, <<"1">>, <<"0">>,
      <<"y", "e", "s">>, <<"n", "o">>, <<"y">>, <<"n">>, <<"t">>, <<"f">> }

\* line 27, with re.IGNORECASE
UuidPattern ==
    <<R(Cls(Hex), 8, 8), Lit("-"), R(Cls(Hex), 4, 4), Lit("-"), R(Cls(Hex), 4, 4), Lit("-"),
      R(Cls(Hex), 4, 4), Lit("-"), R(Cls(Hex), 12, 12)>>

\* line 32
EmailPattern ==
    <<RMany(Cls(AlphaNum \cup {".", "_", "%", "+", "-"}), 1), Lit("@"),
      RMany(Cls(AlphaNum \cup {".", "-"}), 1), Lit("."), RMany(Cls(Alpha), 2)>>

\* line 37, with re.IGNORECASE
UrlPattern ==
    <<LitI("h"), LitI("t"), LitI("t"), LitI("p"), R(Cls({"s", "S"}), 0, 1),
      Lit(":"), Lit("/"), Lit("/"),
      R(NotCls(Whitespace \cup {"/", "$", ".", "?", "#"}), 1, 1),
      R(NotCls({"\n"}), 1, 1),
      RMany(NotCls(Whitespace), 0)>>

\* line 42
Ipv4Pattern == Repeat(<<R(Cls(Digit), 1, 3), Lit(".")>>, 3) \o <<R(Cls(Digit), 1, 3)>>

\* lines 43-46
IsIpv4(value) ==
    /\ Match(value, Ipv4Pattern)
    /\ LET parts == Split(value, ".")
       IN  \A i \in DOMAIN parts : 0 <= IntOf(parts[i]) /\ IntOf(parts[i]) <= 255

\* line 49
Ipv6Pattern == Repeat(<<R(Cls(Hex), 1, 4), Lit(":")>>, 7) \o <<R(Cls(Hex), 1, 4)>>

\* line 54
MacPattern == Repeat(<<R(Cls(Hex), 2, 2), R(Cls({":", "-"}), 1, 1)>>, 5) \o <<R(Cls(Hex), 2, 2)>>

\* lines 59-60
IsCreditCard(value) == Match(Without(value, Whitespace \cup {"-"}), <<R(Cls(Digit), 13, 19)>>)

\* lines 64-69
PhonePatterns ==
    { <<R(Cls({"+"}), 0, 1), RMany(Cls(Digit \cup Whitespace \cup {"-", "(", ")"}), 10)>>,
      <<R(Cls(Digit), 3, 3), Lit("-"), R(Cls(Digit), 3, 3), Lit("-"), R(Cls(Digit), 4, 4)>>,
      <<Lit("("), R(Cls(Digit), 3, 3), Lit(")"), R(Cls(Whitespace), 0, 1),
        R(Cls(Digit), 3, 3), Lit("-"), R(Cls(Digit), 4, 4)>>,
      <<Lit("+"), R(Cls(Digit), 1, 3), R(Cls(Whitespace \cup {"-"}), 0, 1),
        R(Cls(Digit), 1, 4), R(Cls(Whitespace \cup {"-"}), 0, 1),
        R(Cls(Digit), 1, 4), R(Cls(Whitespace \cup {"-"}), 0, 1), R(Cls(Digit), 1, 9)>> }

\* line 70
IsPhoneNumber(value) == \E pat \in PhonePatterns : Match(value, pat)

----------------------------------------------------------------------------
(* json.loads(value) succeeds: the grammar of Python's json scanner in its
   default strict mode.  Each Json* operator takes the index where a token
   starts and returns the index after it, or 0 when there is no such token. *)

JsonWhitespace == {" ", "\t", "\n", "\r"}

RECURSIVE JsonSkip(_, _)
JsonSkip(s, i) == IF i <= Len(s) /\ s[i] \in JsonWhitespace THEN JsonSkip(s, i + 1) ELSE i

RECURSIVE DigitsEnd(_, _)
\* the index after the run of digits that starts at i
DigitsEnd(s, i) == IF i <= Len(s) /\ s[i] \in Digit THEN DigitsEnd(s, i + 1) ELSE i

\* s[i-1:].startswith(word)
HasWordAt(s, i, word) == i + Len(word) - 1 <= Len(s) /\ SubSeq(s, i, i + Len(word) - 1) = word

\* NUMBER_RE: (-?(?:0|[1-9]\d*))(\.\d+)?([eE][-+]?\d+)?
JsonNumber(s, i) ==
    LET a == IF i <= Len(s) /\ s[i] = "-" THEN i + 1 ELSE i
        b == IF a <= Len(s) /\ s[a] = "0" THEN a + 1
             ELSE IF a <= Len(s) /\ s[a] \in Digit THEN DigitsEnd(s, a)
             ELSE 0
        c == IF b # 0 /\ b < Len(s) /\ s[b] = "." /\ s[b + 1] \in Digit
             THEN DigitsEnd(s, b + 1) ELSE b
        d == IF c # 0 /\ c <= Len(s) /\ s[c] \in {"e", "E"}
             THEN (IF c + 1 <= Len(s) /\ s[c + 1] \in {"+", "-"} THEN c + 2 ELSE c + 1)
             ELSE 0
    IN  IF b = 0 THEN 0
        ELSE IF d # 0 /\ d <= Len(s) /\ s[d] \in Digit THEN DigitsEnd(s, d)
        ELSE c

RECURSIVE JsonStringBody(_, _)
\* the characters of a string up to its closing quote
JsonStringBody(s, i) ==
    IF i > Len(s) THEN 0
    ELSE IF s[i] = "\"" THEN i + 1
    ELSE IF s[i] \in {"\t", "\n", "\r", "\f"} THEN 0
    ELSE IF s[i] = "\\"
    THEN IF i + 1 > Len(s) THEN 0
         ELSE IF s[i + 1] \in {"\"", "\\", "/", "b", "f", "n", "r", "t"}
         THEN JsonStringBody(s, i + 2)
         ELSE IF s[i + 1] = "u" /\ i + 5 <= Len(s) /\ \A j \in (i + 2)..(i + 5) : s[j] \in Hex
         THEN JsonStringBody(s, i + 6)
         ELSE 0
    ELSE JsonStringBody(s, i + 1)

JsonString(s, i) == IF i <= Len(s) /\ s[i] = "\"" THEN JsonStringBody(s, i + 1) ELSE 0

JsonLiterals ==
    { <<"n", "u", "l", "l">>, <<"t", "r", "u", "e">>, <<"f", "a", "l", "s", "e">>,
      <<"N", "a", "N">>, <<"I", "n", "f", "i", "n", "i", "t", "y">>,
      <<"-", "I", "n", "f", "i", "n", "i", "t", "y">> }

RECURSIVE JsonValue(_, _)
RECURSIVE JsonMembers(_, _)
RECURSIVE JsonElements(_, _)

\* "key" : value, then ',' and more members, or '}'
JsonMembers(s, i) ==
    LET k == JsonString(s, i)
        c == IF k = 0 THEN 0 ELSE JsonSkip(s, k)
        v == IF c # 0 /\ c <= Len(s) /\ s[c] = ":" THEN JsonValue(s, JsonSkip(s, c + 1)) ELSE 0
        e == IF v = 0 THEN 0 ELSE JsonSkip(s, v)
    IN  IF e = 0 \/ e > Len(s) THEN 0
        ELSE IF s[e] = "}" THEN e + 1
        ELSE IF s[e] = "," THEN JsonMembers(s, JsonSkip(s, e + 1))
        ELSE 0

\* value, then ',' and more elements, or ']'
JsonElements(s, i) ==
    LET v == JsonValue(s, i)
        e == IF v = 0 THEN 0 ELSE JsonSkip(s, v)
    IN  IF e = 0 \/ e > Len(s) THEN 0
        ELSE IF s[e] = "]" THEN e + 1
        ELSE IF s[e] = "," THEN JsonElements(s, JsonSkip(s, e + 1))
        ELSE 0

JsonValue(s, i) ==
    IF i > Len(s) THEN 0
    ELSE IF s[i] = "\"" THEN JsonString(s, i)
    ELSE IF s[i] = "{"
    THEN LET j == JsonSkip(s, i + 1)
         IN  IF j <= Len(s) /\ s[j] = "}" THEN j + 1 ELSE JsonMembers(s, j)
    ELSE IF s[i] = "["
    THEN LET j == JsonSkip(s, i + 1)
         IN  IF j <= Len(s) /\ s[j] = "]" THEN j + 1 ELSE JsonElements(s, j)
    ELSE IF \E w \in JsonLiterals : HasWordAt(s, i, w)
    THEN i + Len(CHOOSE w \in JsonLiterals : HasWordAt(s, i, w))
    ELSE JsonNumber(s, i)

\* json.loads(s) returns (raises neither JSONDecodeError nor ValueError)
JsonLoads(s) ==
    LET e == JsonValue(s, JsonSkip(s, 1))
    IN  e # 0 /\ JsonSkip(s, e) = Len(s) + 1

\* lines 74-80
IsJson(value) ==
    /\ \/ StartsWith(value, "{") /\ EndsWith(value, "}")
       \/ StartsWith(value, "[") /\ EndsWith(value, "]")
    /\ JsonLoads(value)

\* line 83: ^-?\d+\.?\d*,\d+\.?\d*$
CoordinatePattern ==
    <<R(Cls({"-"}), 0, 1), RMany(Cls(Digit), 1), R(Cls({"."}), 0, 1), RMany(Cls(Digit), 0),
      Lit(","), RMany(Cls(Digit), 1), R(Cls({"."}), 0, 1), RMany(Cls(Digit), 0)>>

\* lines 83-86: a split on ',' of a value that holds one has two parts or more
IsCommaList(value) ==
    /\ HasChar(value, ",")
    /\ ~Match(value, CoordinatePattern)
    /\ Len(Split(value, ",")) > 1

----------------------------------------------------------------------------
(* float(s), int(s) and Decimal(s) of a stripped string *)

\* digit+ ("_" digit+)*: digits with single underscores between them
IsDigitPart(t) ==
    /\ t # <<>>
    /\ \A i \in DOMAIN t : t[i] \in Digit \cup {"_"}
    /\ t[1] # "_" /\ t[Len(t)] # "_"
    /\ \A i \in 1..(Len(t) - 1) : ~(t[i] = "_" /\ t[i + 1] = "_")

\* s without the sign it may start with
Unsigned(s) == IF s # <<>> /\ s[1] \in {"+", "-"} THEN Tail(s) ELSE s

IsNegative(s) == s # <<>> /\ s[1] = "-"

\* int(s) returns
IsIntLiteral(s) == IsDigitPart(Unsigned(s))

\* the index of the exponent marker of an unsigned float literal, 0 if none
ExpIndex(t) ==
    IF \E i \in DOMAIN t : t[i] \in {"e", "E"}
    THEN CHOOSE i \in DOMAIN t : t[i] \in {"e", "E"} /\ \A j \in 1..(i - 1) : t[j] \notin {"e", "E"}
    ELSE 0

\* the mantissa and the exponent text of an unsigned float literal
Mantissa(t) == IF ExpIndex(t) = 0 THEN t ELSE Slice(t, 1, ExpIndex(t) - 1)

Exponent(t) == IF ExpIndex(t) = 0 THEN <<>> ELSE Slice(t, ExpIndex(t) + 1, Len(t))

\* [digitpart] "." [digitpart] with a digit on one side at least, or digitpart
IsMantissa(m) ==
    IF HasChar(m, ".")
    THEN LET parts == Split(m, ".")
         IN  /\ Len(parts) = 2
             /\ parts[1] = <<>> \/ IsDigitPart(parts[1])
             /\ parts[2] = <<>> \/ IsDigitPart(parts[2])
             /\ parts[1] # <<>> \/ parts[2] # <<>>
    ELSE IsDigitPart(m)

\* a finite float literal without its sign
IsFiniteFloat(t) ==
    /\ IsMantissa(Mantissa(t))
    /\ ExpIndex(t) # 0 => IsDigitPart(Unsigned(Exponent(t)))

SpecialFloats ==
    { <<"i", "n", "f">>, <<"i", "n", "f", "i", "n", "i", "t", "y">>, <<"n", "a", "n">> }

\* float(s) returns
IsFloatLiteral(s) == IsFiniteFloat(Unsigned(s)) \/ Lower(Unsigned(s)) \in SpecialFloats

\* Decimal(s) returns: underscores are dropped first, then
\* [-+]?((?=\d|\.\d)\d*(\.\d*)?(E[-+]?\d+)?|Inf(inity)?|s?NaN\d*) without case
IsDecimalLiteral(s) ==
    LET t == Lower(Unsigned(Without(s, {"_"})))
        m == Mantissa(t)
    IN  \/ /\ \A i \in DOMAIN m : m[i] \in Digit \cup {"."}
           /\ \E i \in DOMAIN m : m[i] \in Digit
           /\ Len(Split(m, ".")) <= 2
           /\ ExpIndex(t) # 0 =>
                 Unsigned(Exponent(t)) # <<>> /\ \A i \in DOMAIN Unsigned(Exponent(t)) :
                                                    Unsigned(Exponent(t))[i] \in Digit
       \/ t \in {<<"i", "n", "f">>, <<"i", "n", "f", "i", "n", "i", "t", "y">>}
       \/ \E p \in {<<"n", "a", "n">>, <<"s", "n", "a", "n">>} :
             /\ Len(t) >= Len(p) /\ SubSeq(t, 1, Len(p)) = p
             /\ \A i \in (Len(p) + 1)..Len(t) : t[i] \in Digit

----------------------------------------------------------------------------
(* 0 <= float(s) <= 4102444800 (line 137), decided on the digits of the
   literal: TLC's integers are 32 bits wide and cannot hold the bound.
   Exact for literals of fewer than 17 significant digits, as the classifier's
   inputs here are; longer ones are rounded by float() before the comparison. *)

RECURSIVE DropZeros(_)
\* the digits without their leading zeros
DropZeros(d) == IF d # <<>> /\ d[1] = "0" THEN DropZeros(Tail(d)) ELSE d

\* the digits of 4102444800
TimestampMax == <<"4", "1", "0", "2", "4", "4", "4", "8", "0", "0">>

\* the first digits of 2**-1075 = 2.47032822920623272...e-324, half of the
\* smallest positive float: what is smaller in magnitude rounds to zero
HalfMinFloat ==
    <<"2", "4", "7", "0", "3", "2", "8", "2", "2", "9", "2", "0", "6", "2", "3", "2", "7">>

\* the exponent of 10 of the decimal 0.24703...e-323
HalfMinFloatPoint == -323

\* beyond this many digits an exponent is as good as infinite
MaxExpDigits == 6

\* d < e for two digit sequences read as decimal fractions 0.d and 0.e
FractionLess(d, e) ==
    \E i \in 1..Len(e) :
        /\ \A j \in 1..(i - 1) : j <= Len(d) /\ d[j] = e[j]
        /\ (IF i <= Len(d) THEN DigitVal(d[i]) ELSE 0) < DigitVal(e[i])

\* d <= e for two digit sequences read as decimal fractions
FractionLeq(d, e) == ~FractionLess(e, d)

\* the exponent of a finite float literal, saturated
ExpValue(t) ==
    LET x == Exponent(t)
        digits == DropZeros(Without(Unsigned(x), {"_"}))
        magnitude == IF Len(digits) > MaxExpDigits THEN 10000000 ELSE IntOf(digits)
    IN  IF IsNegative(x) THEN 0 - magnitude ELSE magnitude

\* the digits of the mantissa of a finite float literal, without the point
MantissaDigits(t) == Without(Mantissa(t), {"_", "."})

\* the number of digits after the point of the mantissa
FractionLen(t) ==
    LET m == Without(Mantissa(t), {"_"})
    IN  IF HasChar(m, ".") THEN Len(Split(m, ".")[2]) ELSE 0

\* 0 <= float(s) <= 4102444800 for a string float() accepts
InTimestampRange(s) ==
    LET t == Unsigned(s)
        d == DropZeros(MantissaDigits(t))
        \* the value is 0.d * 10 ** point
        point == Len(d) + ExpValue(t) - FractionLen(t)
    IN  /\ IsFiniteFloat(t)
        /\ \/ d = <<>>
           \/ /\ IsNegative(s)
              /\ \/ point < HalfMinFloatPoint
                 \/ point = HalfMinFloatPoint /\ FractionLeq(d, HalfMinFloat)
           \/ /\ ~IsNegative(s)
              /\ \/ point < Len(TimestampMax)
                 \/ point = Len(TimestampMax) /\ FractionLeq(d, TimestampMax)

\* lines 89-95
IsPercentage(value) ==
    EndsWith(value, "%") /\ IsFloatLiteral(Strip(Slice(value, 1, Len(value) - 1)))

\* line 98
CurrencyPattern ==
    <<R(Cls(CurrencySign), 1, 1), R(Cls(Whitespace), 0, 1), RMany(Cls(Digit \cup {","}), 1),
      R(Cls({"."}), 0, 1), RMany(Cls(Digit), 0)>>

----------------------------------------------------------------------------
(* datetime.strptime(value, fmt) returns.  A format is the sequence of its
   directives and literal characters; _strptime turns a blank of the format
   into \s+, matches without case, and then builds the datetime. *)

\* lines 103-121
DateTimeFormats ==
    << <<"%Y", "-", "%m", "-", "%d">>,
       <<"%Y", "-", "%m", "-", "%d", " ", "%H", ":", "%M", ":", "%S">>,
       <<"%Y", "-", "%m", "-", "%d", "T", "%H", ":", "%M", ":", "%S">>,
       <<"%Y", "-", "%m", "-", "%d", "T", "%H", ":", "%M", ":", "%S", ".", "%f">>,
       <<"%Y", "-", "%m", "-", "%d", "T", "%H", ":", "%M", ":", "%S", "%z">>,
       <<"%Y", "-", "%m", "-", "%d", "T", "%H", ":", "%M", ":", "%S", ".", "%f", "%z">>,
       <<"%m", "/", "%d", "/", "%Y">>,
       <<"%m", "-", "%d", "-", "%Y">>,
       <<"%m", "/", "%d", "/", "%Y", " ", "%H", ":", "%M", ":", "%S">>,
       <<"%d", "/", "%m", "/", "%Y">>,
       <<"%d", "-", "%m", "-", "%Y">>,
       <<"%d", "/", "%m", "/", "%Y", " ", "%H", ":", "%M", ":", "%S">>,
       <<"%Y", "/", "%m", "/", "%d">>,
       <<"%d", ".", "%m", ".", "%Y">>,
       <<"%Y", ".", "%m", ".", "%d">>,
       <<"%H", ":", "%M", ":", "%S">>,
       <<"%H", ":", "%M">> >>

Directives == {"%Y", "%m", "%d", "%H", "%M", "%S", "%f", "%z"}

AllDigits(seg) == \A i \in DOMAIN seg : seg[i] \in Digit

\* one or two digits whose value lies in lo..hi
SmallNumber(seg, lo, hi) ==
    Len(seg) \in 1..2 /\ AllDigits(seg) /\ IntOf(seg) >= lo /\ IntOf(seg) <= hi

\* [+-]\d\d:?[0-5]\d(:?[0-5]\d(\.\d{1,6})?)?|(?-i:Z)
TzPatterns ==
    LET sign == R(Cls({"+", "-"}), 1, 1)
        two == R(Cls(Digit), 2, 2)
        sixty == <<R(Cls({"0", "1", "2", "3", "4", "5"}), 1, 1), R(Cls(Digit), 1, 1)>>
        colon == R(Cls({":"}), 0, 1)
        fraction == <<Lit("."), R(Cls(Digit), 1, 6)>>
    IN  { <<Lit("Z")>>,
          <<sign, two, colon>> \o sixty,
          <<sign, two, colon>> \o sixty \o <<colon>> \o sixty,
          <<sign, two, colon>> \o sixty \o <<colon>> \o sixty \o fraction }

\* the offset text matches %z and _strptime makes a timezone of it: the
\* colons are used for both separators or for none, and the offset is
\* less than 24 hours
TzOk(seg) ==
    /\ \E pat \in TzPatterns : Match(seg, pat)
    /\ seg # <<"Z">> =>
          /\ IntOf(SubSeq(seg, 2, 3)) <= 23
          /\ LET body == Slice(seg, 4, Len(seg))
                 colons == Len(Split(body, ":")) - 1
                 seconds == Len(Without(Split(body, ".")[1], {":"})) = 4
             IN  IF body[1] = ":" THEN (seconds => colons = 2)
                 ELSE colons = 0

\* the text matches the directive's pattern
DirectiveOk(tok, seg) ==
    CASE tok = "%Y" -> Len(seg) = 4 /\ AllDigits(seg)
      [] tok = "%m" -> SmallNumber(seg, 1, 12)
      [] tok = "%d" -> \/ SmallNumber(seg, 1, 31)
                       \/ Len(seg) = 2 /\ seg[1] = " " /\ seg[2] \in Digit \ {"0"}
      [] tok = "%H" -> SmallNumber(seg, 0, 23)
      [] tok = "%M" -> SmallNumber(seg, 0, 59)
      [] tok = "%S" -> SmallNumber(seg, 0, 61)
      [] tok = "%f" -> Len(seg) \in 1..6 /\ AllDigits(seg)
      [] tok = "%z" -> TzOk(seg)

\* the longest text a directive takes
DirectiveMaxLen(tok) ==
    CASE tok = "%Y" -> 4
      [] tok = "%f" -> 6
      [] tok = "%z" -> 16
      [] OTHER -> 2

IsLeapYear(y) == y % 4 = 0 /\ (y % 100 # 0 \/ y % 400 = 0)

DaysInMonth(y, m) ==
    IF m = 2 THEN (IF IsLeapYear(y) THEN 29 ELSE 28)
    ELSE IF m \in {4, 6, 9, 11} THEN 30
    ELSE 31

\* the fields _strptime starts from: 1900-01-01 00:00:00
DefaultFields == [Y |-> 1900, m |-> 1, d |-> 1, S |-> 0]

\* a parsed directive's field
SetField(f, tok, seg) ==
    CASE tok = "%Y" -> [f EXCEPT !.Y = IntOf(seg)]
      [] tok = "%m" -> [f EXCEPT !.m = IntOf(seg)]
      [] tok = "%d" -> [f EXCEPT !.d = IntOf(Without(seg, {" "}))]
      [] tok = "%S" -> [f EXCEPT !.S = IntOf(seg)]
      [] OTHER -> f

\* datetime(year, month, day, ..., second) accepts the fields
FieldsOk(f) == f.Y >= 1 /\ f.d <= DaysInMonth(f.Y, f.m) /\ f.S <= 59

RECURSIVE StrptimeFrom(_, _, _, _, _)
StrptimeFrom(s, i, fmt, k, f) ==
    IF k > Len(fmt) THEN i = Len(s) + 1 /\ FieldsOk(f)
    ELSE LET tok == fmt[k]
             avail == Len(s) - i + 1
         IN  IF tok = " "
             THEN \E n \in 1..avail :
                     /\ \A j \in i..(i + n - 1) : s[j] \in Whitespace
                     /\ StrptimeFrom(s, i + n, fmt, k + 1, f)
             ELSE IF tok \in Directives
             THEN \E n \in 1..(IF DirectiveMaxLen(tok) < avail THEN DirectiveMaxLen(tok) ELSE avail) :
                     /\ DirectiveOk(tok, SubSeq(s, i, i + n - 1))
                     /\ StrptimeFrom(s, i + n, fmt, k + 1,
                                     SetField(f, tok, SubSeq(s, i, i + n - 1)))
             ELSE /\ avail >= 1
                  /\ LowerChar(s[i]) = LowerChar(tok)
                  /\ StrptimeFrom(s, i + 1, fmt, k + 1, f)

\* datetime.strptime(value, fmt) raises no ValueError
Strptime(value, fmt) == StrptimeFrom(value, 1, fmt, 1, DefaultFields)

\* line 127
IsDateTimeFormat(fmt) ==
    \E i \in DOMAIN fmt : fmt[i] \in {"T", " ", "%H"}

\* lines 134-141 never taken
IsUnixTimestampNever(value) == FALSE

\* lines 134-141
IsUnixTimestamp(value) == IsFloatLiteral(value) /\ InTimestampRange(value)

\* lines 171-175, with re.IGNORECASE
PostalPatterns ==
    { <<R(Cls(Digit), 5, 5)>>,
      <<R(Cls(Digit), 5, 5), Lit("-"), R(Cls(Digit), 4, 4)>>,
      <<R(Cls(Alpha), 1, 1), R(Cls(Digit), 1, 1), R(Cls(Alpha), 1, 1), R(Cls(Whitespace), 0, 1),
        R(Cls(Digit), 1, 1), R(Cls(Alpha), 1, 1), R(Cls(Digit), 1, 1)>>,
      <<R(Cls(Alpha), 1, 2), R(Cls(Digit), 1, 2), R(Cls(Whitespace), 0, 1),
        R(Cls(Digit), 1, 1), R(Cls(Alpha), 2, 2)>> }

\* line 180: ^(ISBN[- ]?)?(\d{10}|\d{13})$
IsbnPatterns ==
    LET prefix == <<Lit("I"), Lit("S"), Lit("B"), Lit("N"), R(Cls({"-", " "}), 0, 1)>>
    IN  { <<R(Cls(Digit), 10, 10)>>, <<R(Cls(Digit), 13, 13)>>,
          prefix \o <<R(Cls(Digit), 10, 10)>>, prefix \o <<R(Cls(Digit), 13, 13)>> }

\* line 185
Base64Pattern == <<RMany(Cls(AlphaNum \cup {"+", "/"}), 1), RMany(Cls({"="}), 0)>>

\* line 186
IsBase64(value) == Len(value) % 4 = 0 /\ Match(value, Base64Pattern) /\ Len(value) > 20

\* line 190
HexColorPattern == <<R(Cls({"#"}), 0, 1), R(Cls(Hex), 6, 6)>>

\* a pair (business_type, data_type); no business type is None
Pair(business_type, data_type) == [business_type |-> business_type, data_type |-> data_type]

NoBusinessType == "None"

\* lines 124-132: the first format that parses decides between datetime and date
DateTimeResult(value) ==
    LET k == CHOOSE k \in DOMAIN DateTimeFormats :
                 /\ Strptime(value, DateTimeFormats[k])
                 /\ \A j \in 1..(k - 1) : ~Strptime(value, DateTimeFormats[j])
    IN  IF IsDateTimeFormat(DateTimeFormats[k]) THEN Pair("datetime", "datetime")
        ELSE Pair("date", "date")

\* lines 19-195 with the date formats (lines 102-132) tried before the phone
\* patterns (lines 64-71)
ClassifyDatesBeforePhone(value) ==
    IF Lower(value) \in BooleanLiterals THEN Pair(NoBusinessType, "boolean")
    ELSE IF Match(value, UuidPattern) THEN Pair("uuid", "string")
    ELSE IF Match(value, EmailPattern) THEN Pair("email", "string")
    ELSE IF Match(value, UrlPattern) THEN Pair("url", "string")
    ELSE IF IsIpv4(value) THEN Pair("ip_address", "string")
    ELSE IF Match(value, Ipv6Pattern) THEN Pair("ipv6_address", "string")
    ELSE IF Match(value, MacPattern) THEN Pair("mac_address", "string")
    ELSE IF IsCreditCard(value) THEN Pair("credit_card", "string")
    ELSE IF \E k \in DOMAIN DateTimeFormats : Strptime(value, DateTimeFormats[k])
    THEN DateTimeResult(value)
    ELSE IF IsPhoneNumber(value) THEN Pair("phone_number", "string")
    ELSE IF IsJson(value) THEN Pair("json", "string")
    ELSE IF IsCommaList(value) THEN Pair("array", "string")
    ELSE IF IsPercentage(value) THEN Pair("percentage", "number")
    ELSE IF Match(value, CurrencyPattern) THEN Pair("currency", "string")
    ELSE IF IsUnixTimestamp(value) THEN Pair("timestamp", "number")
    ELSE IF IsIntLiteral(value) THEN Pair(NoBusinessType, "integer")
    ELSE IF IsFloatLiteral(value)
    THEN (IF HasChar(Lower(value), "e") THEN Pair(NoBusinessType, "number")
          ELSE IF HasChar(value, ".") THEN Pair(NoBusinessType, "float")
          ELSE Pair(NoBusinessType, "number"))
    ELSE IF IsDecimalLiteral(value) THEN Pair(NoBusinessType, "decimal")
    ELSE IF \E pat \in PostalPatterns : Match(value, pat) THEN Pair("postal_code", "string")
    ELSE IF \E pat \in IsbnPatterns : Match(value, pat) THEN Pair("isbn", "string")
    ELSE IF IsBase64(value) THEN Pair("base64", "string")
    ELSE IF Match(value, HexColorPattern) THEN Pair("hex_color", "string")
    ELSE Pair(NoBusinessType, "string")

\* lines 19-195: the rules applied to the stripped value, first match wins
Classify(value) ==
    IF Lower(value) \in BooleanLiterals THEN Pair(NoBusinessType, "boolean")
    ELSE IF Match(value, UuidPattern) THEN Pair("uuid", "string")
    ELSE IF Match(value, EmailPattern) THEN Pair("email", "string")
    ELSE IF Match(value, UrlPattern) THEN Pair("url", "string")
    ELSE IF IsIpv4(value) THEN Pair("ip_address", "string")
    ELSE IF Match(value, Ipv6Pattern) THEN Pair("ipv6_address", "string")
    ELSE IF Match(value, MacPattern) THEN Pair("mac_address", "string")
    ELSE IF IsCreditCard(value) THEN Pair("credit_card", "string")
    ELSE IF IsPhoneNumber(value) THEN Pair("phone_number", "string")
    ELSE IF IsJson(value) THEN Pair("json", "string")
    ELSE IF IsCommaList(value) THEN Pair("array", "string")
    ELSE IF IsPercentage(value) THEN Pair("percentage", "number")
    ELSE IF Match(value, CurrencyPattern) THEN Pair("currency", "string")
    ELSE IF \E k \in DOMAIN DateTimeFormats : Strptime(value, DateTimeFormats[k])
    THEN DateTimeResult(value)
    ELSE IF IsUnixTimestamp(value) THEN Pair("timestamp", "number")
    ELSE IF IsIntLiteral(value) THEN Pair(NoBusinessType, "integer")
    ELSE IF IsFloatLiteral(value)
    THEN (IF HasChar(Lower(value), "e") THEN Pair(NoBusinessType, "number")
          ELSE IF HasChar(value, ".") THEN Pair(NoBusinessType, "float")
          ELSE Pair(NoBusinessType, "number"))
    ELSE IF IsDecimalLiteral(value) THEN Pair(NoBusinessType, "decimal")
    ELSE IF \E pat \in PostalPatterns : Match(value, pat) THEN Pair("postal_code", "string")
    ELSE IF \E pat \in IsbnPatterns : Match(value, pat) THEN Pair("isbn", "string")
    ELSE IF IsBase64(value) THEN Pair("base64", "string")
    ELSE IF Match(value, HexColorPattern) THEN Pair("hex_color", "string")
    ELSE Pair(NoBusinessType, "string")

\* the argument of infer_types: a str
Str(chars) == [str |-> chars]

\* lines 7-195: value is Str(chars), or None (a cell a short CSV row lacks)
InferTypes(value) ==
    IF value = None \/ value.str = <<>> \/ Strip(value.str) = <<>>
    THEN Pair(NoBusinessType, "null")
    ELSE Classify(Strip(value.str))

----------------------------------------------------------------------------
(* The property schemas _process_nested_object builds *)

FieldPrefix == <<"F", "i", "e", "l", "d", ":", " ">>

NestedObjectSuffix ==
    <<" ", "(", "n", "e", "s", "t", "e", "d", " ", "o", "b", "j", "e", "c", "t", ")">>

ArraySuffix == <<" ", "(", "a", "r", "r", "a", "y", ")">>

EmptyArraySuffix ==
    <<" ", "(", "e", "m", "p", "t", "y", " ", "a", "r", "r", "a", "y", ")">>

\* {"type": t, "description": "Field: <path>"}
Prim(t, path) == ("type" :> t) @@ ("description" :> (FieldPrefix \o path))

WithBusinessType(prop, b) == Put(prop, "business_type", b)

\* {"type": "object", "properties": props, "description": "Field: <path> (nested object)"}
Obj(props, path) ==
    ("type" :> Tag("object")) @@ ("properties" :> props)
        @@ ("description" :> (FieldPrefix \o path \o NestedObjectSuffix))

\* {"type": "array", "items": items, "description": "Field: <path> (array)"}
Arr(items, path) ==
    ("type" :> Tag("array")) @@ ("items" :> items)
        @@ ("description" :> (FieldPrefix \o path \o ArraySuffix))

\* {"type": "array", "items": {}, "description": "Field: <path> (empty array)"}
EmptyArr(path) ==
    ("type" :> Tag("array")) @@ ("items" :> EmptyDict)
        @@ ("description" :> (FieldPrefix \o path \o EmptyArraySuffix))

----------------------------------------------------------------------------
(* Decoded JSON values, as json.loads returns them.  A number carries the
   text str() gives for it, a dict its items in order (its keys differ). *)

JNull == [k |-> "null"]

JBool(b) == [k |-> "bool", b |-> b]

JInt(text) == [k |-> "int", text |-> text]

\* a finite float, with its repr
JFloat(text) == [k |-> "float", text |-> text]

JStr(chars) == [k |-> "str", chars |-> chars]

JList(items) == [k |-> "list", items |-> items]

\* pairs: a sequence of <<key, value>>
JDict(pairs) == [k |-> "dict", pairs |-> pairs]

\* lines 6-23: _python_type_to_json_schema_type
PythonTypeToJsonSchemaType(value) ==
    CASE value.k = "null" -> "null"
      [] value.k = "bool" -> "boolean"
      [] value.k = "int" -> "integer"
      [] value.k = "float" -> "number"
      [] value.k = "str" -> "string"
      [] value.k = "list" -> "array"
      [] value.k = "dict" -> "object"

\* str(value) of a value that is no dict and no list
PyStr(value) ==
    CASE value.k = "null" -> <<"N", "o", "n", "e">>
      [] value.k = "bool" -> IF value.b THEN <<"T", "r", "u", "e">> ELSE <<"F", "a", "l", "s", "e">>
      [] value.k = "int" -> value.text
      [] value.k = "float" -> value.text
      [] value.k = "str" -> value.chars

\* json.dumps of one character of a str (ensure_ascii)
JsonEscapeChar(c) ==
    CASE c = "\"" -> <<"\\", "\"">>
      [] c = "\\" -> <<"\\", "\\">>
      [] c = "\n" -> <<"\\", "n">>
      [] c = "\r" -> <<"\\", "r">>
      [] c = "\t" -> <<"\\", "t">>
      [] c = "\f" -> <<"\\", "f">>
      [] c = "U+20AC" -> <<"\\", "u", "2", "0", "a", "c">>
      [] c = "U+00A3" -> <<"\\", "u", "0", "0", "a", "3">>
      [] c = "U+00A5" -> <<"\\", "u", "0", "0", "a", "5">>
      [] c = "U+20B9" -> <<"\\", "u", "2", "0", "b", "9">>
      [] OTHER -> <<c>>

RECURSIVE JsonDumpsStr(_)
JsonDumpsStr(chars) ==
    IF chars = <<>> THEN <<>> ELSE JsonEscapeChar(Head(chars)) \o JsonDumpsStr(Tail(chars))

RECURSIVE JsonDumps(_)
RECURSIVE JsonDumpsItems(_, _)
RECURSIVE JsonDumpsPairs(_, _)

\* the elements of a list from the i-th on, joined by ', '
JsonDumpsItems(items, i) ==
    IF i > Len(items) THEN <<>>
    ELSE (IF i > 1 THEN <<",", " ">> ELSE <<>>) \o JsonDumps(items[i]) \o JsonDumpsItems(items, i + 1)

\* the items of a dict from the i-th on, each '"key": value', joined by ', '
JsonDumpsPairs(pairs, i) ==
    IF i > Len(pairs) THEN <<>>
    ELSE (IF i > 1 THEN <<",", " ">> ELSE <<>>)
         \o <<"\"">> \o JsonDumpsStr(pairs[i][1]) \o <<"\"", ":", " ">>
         \o JsonDumps(pairs[i][2]) \o JsonDumpsPairs(pairs, i + 1)

\* json.dumps(value)
JsonDumps(value) ==
    CASE value.k = "null" -> <<"n", "u", "l", "l">>
      [] value.k = "bool" -> IF value.b THEN <<"t", "r", "u", "e">> ELSE <<"f", "a", "l", "s", "e">>
      [] value.k = "int" -> value.text
      [] value.k = "float" -> value.text
      [] value.k = "str" -> <<"\"">> \o JsonDumpsStr(value.chars) \o <<"\"">>
      [] value.k = "list" -> <<"[">> \o JsonDumpsItems(value.items, 1) \o <<"]">>
      [] value.k = "dict" -> <<"{">> \o JsonDumpsPairs(value.pairs, 1) \o <<"}">>

----------------------------------------------------------------------------
(* list(a_set): the order in which a set of tags is iterated is not fixed by
   the program (it follows the hashes of the strings).  An order is a
   sequence that holds every tag once; list(S) holds the members of S in the
   order's order. *)

TagOrder ==
    << "string", "integer", "number", "float", "boolean", "null", "object", "array",
       "date", "datetime", "decimal",
       "uuid", "email", "url", "ip_address", "ipv6_address", "mac_address", "credit_card",
       "phone_number", "json", "percentage", "currency", "timestamp", "postal_code", "isbn",
       "base64", "hex_color" >>

Reverse(s) == [i \in DOMAIN s |-> s[Len(s) + 1 - i]]

SetOrders == {TagOrder, Reverse(TagOrder)}

RECURSIVE ListOfSet(_, _)
\* list(S)
ListOfSet(S, order) ==
    IF order = <<>> THEN <<>>
    ELSE (IF Head(order) \in S THEN <<Tag(Head(order))>> ELSE <<>>) \o ListOfSet(S, Tail(order))

----------------------------------------------------------------------------
(* _process_nested_object *)

\* line 69: value[:min(10, len(value))]
MaxItemSamples == 10

\* line 47
FullPath(path, key) == IF path # <<>> THEN path \o <<".">> \o key ELSE key

\* line 74: the text of an array item handed to infer_types
ItemStr(item) == IF item.k \in {"dict", "list"} THEN JsonDumps(item) ELSE PyStr(item)

\* lines 66-78: item_types over the sampled items
ItemTypes(value, use_business_types) ==
    LET n == IF Len(value.items) < MaxItemSamples THEN Len(value.items) ELSE MaxItemSamples
    IN  {PythonTypeToJsonSchemaType(value.items[i]) : i \in 1..n}
            \cup (IF use_business_types
                  THEN {InferTypes(Str(ItemStr(value.items[i]))).data_type : i \in 1..n}
                  ELSE {})

\* lines 67-77: item_business_types over the sampled items
ItemBusinessTypes(value, use_business_types) ==
    LET n == IF Len(value.items) < MaxItemSamples THEN Len(value.items) ELSE MaxItemSamples
    IN  IF use_business_types
        THEN {InferTypes(Str(ItemStr(value.items[i]))).business_type : i \in 1..n}
                 \ {NoBusinessType}
        ELSE {}

\* lines 92-97: the items schema of an array of several item types
MixedItemsSchema(item_types, order) ==
    LET type_list == ListOfSet(item_types \ {"null"}, order)
                        \o (IF "null" \in item_types THEN <<Tag("null")>> ELSE <<>>)
    IN  "type" :> (IF Len(type_list) > 1 THEN List(type_list) ELSE type_list[1])

\* lines 105-109
WithItemBusinessTypes(prop, item_business_types, order) ==
    IF item_business_types = {} THEN prop
    ELSE Put(prop, "items",
             Put(prop["items"], "business_type",
                 IF Cardinality(item_business_types) = 1
                 THEN ListOfSet(item_business_types, order)[1]
                 ELSE List(ListOfSet(item_business_types, order))))

\* lines 118-132 without the override of lines 131-132
PrimitivePropKeepsStructuralType(value, full_path, use_business_types) ==
    LET json_type == PythonTypeToJsonSchemaType(value)
        prop == Prim(Tag(json_type), full_path)
        inferred == InferTypes(Str(PyStr(value)))
    IN  IF ~use_business_types THEN prop
        ELSE IF inferred.business_type # NoBusinessType
        THEN Put(prop, "business_type", Tag(inferred.business_type))
        ELSE prop

\* lines 118-132 with the test of line 125 taken as true
PrimitivePropAlwaysInfers(value, full_path, use_business_types) ==
    LET json_type == PythonTypeToJsonSchemaType(value)
        prop == Prim(Tag(json_type), full_path)
        inferred == InferTypes(Str(PyStr(value)))
        typed == IF inferred.data_type # json_type /\ inferred.data_type # "null"
                 THEN Put(prop, "type", Tag(inferred.data_type))
                 ELSE prop
    IN  IF inferred.business_type # NoBusinessType
        THEN Put(typed, "business_type", Tag(inferred.business_type))
        ELSE typed

\* lines 118-132: the property schema of a value that is no None, dict or list
PrimitiveProp(value, full_path, use_business_types) ==
    LET json_type == PythonTypeToJsonSchemaType(value)
        prop == Prim(Tag(json_type), full_path)
        inferred == InferTypes(Str(PyStr(value)))
        typed == IF inferred.data_type # json_type /\ inferred.data_type # "null"
                 THEN Put(prop, "type", Tag(inferred.data_type))
                 ELSE prop
    IN  IF ~use_business_types THEN prop
        ELSE IF inferred.business_type # NoBusinessType
        THEN Put(typed, "business_type", Tag(inferred.business_type))
        ELSE typed

RECURSIVE ProcessNestedObject(_, _, _, _)
RECURSIVE ProcessPairs(_, _, _, _, _)

\* lines 62-116: the property schema of a list
ArrayProp(value, full_path, use_business_types, order) ==
    IF value.items = <<>> THEN EmptyArr(full_path)
    ELSE LET item_types == ItemTypes(value, use_business_types)
             items_schema ==
                 IF Cardinality(item_types) = 1
                 THEN IF item_types = {"object"} /\ value.items[1].k = "dict"
                      THEN ("type" :> Tag("object"))
                           @@ ("properties" :>
                                 ProcessNestedObject(value.items[1], full_path \o <<"[", "]">>,
                                                     use_business_types, order))
                      ELSE "type" :> Tag(CHOOSE t \in item_types : TRUE)
                 ELSE MixedItemsSchema(item_types, order)
         IN  WithItemBusinessTypes(Arr(items_schema, full_path),
                                   ItemBusinessTypes(value, use_business_types), order)

\* lines 46-134: the body of the loop over obj.items(), for one key
PropOf(value, full_path, use_business_types, order) ==
    IF value.k = "null" THEN Prim(Tag("null"), full_path)
    ELSE IF value.k = "dict"
    THEN Obj(ProcessNestedObject(value, full_path, use_business_types, order), full_path)
    ELSE IF value.k = "list" THEN ArrayProp(value, full_path, use_business_types, order)
    ELSE PrimitiveProp(value, full_path, use_business_types)

\* lines 44-136: properties after the items of obj from the i-th on
ProcessPairs(properties, pairs, i, path, cfg) ==
    IF i > Len(pairs) THEN properties
    ELSE ProcessPairs(Put(properties, pairs[i][1],
                          PropOf(pairs[i][2], FullPath(path, pairs[i][1]), cfg.ubt, cfg.order)),
                      pairs, i + 1, path, cfg)

\* lines 26-136 (sample_rows is not used); order: how this call's sets iterate
ProcessNestedObject(obj, path, use_business_types, order) ==
    ProcessPairs(EmptyDict, obj.pairs, 1, path, [ubt |-> use_business_types, order |-> order])

----------------------------------------------------------------------------
(* _merge_properties *)

\* lines 207-219: union of the "type" of a key present on both sides
MergeTypes(existing, value) ==
    LET existing_type == Get(existing, "type")
        value_type == Get(value, "type")
    IN  IF existing_type = value_type THEN existing
        ELSE IF IsList(existing_type)
        THEN IF In(value_type, existing_type) THEN existing
             ELSE Put(existing, "type", ListAppend(existing_type, value_type))
        ELSE IF IsList(value_type)
        THEN IF In(existing_type, value_type) THEN existing
             ELSE Put(existing, "type", ListAppend(value_type, existing_type))
        ELSE Put(existing, "type", List(<<existing_type, value_type>>))

\* lines 222-237: union of the "business_type" of a key present on both sides
MergeBusinessTypes(existing, value, use_business_types) ==
    LET existing_business_type == Get(existing, "business_type")
        value_business_type == Get(value, "business_type")
    IN  IF ~use_business_types \/ existing_business_type = value_business_type
        THEN existing
        ELSE IF IsList(existing_business_type)
        THEN IF Truthy(value_business_type) /\ ~In(value_business_type, existing_business_type)
             THEN Put(existing, "business_type",
                      ListAppend(existing_business_type, value_business_type))
             ELSE existing
        ELSE IF IsList(value_business_type)
        THEN IF Truthy(existing_business_type) /\ ~In(existing_business_type, value_business_type)
             THEN Put(existing, "business_type",
                      ListAppend(value_business_type, existing_business_type))
             ELSE existing
        ELSE IF Truthy(existing_business_type) /\ Truthy(value_business_type)
        THEN Put(existing, "business_type",
                 List(<<existing_business_type, value_business_type>>))
        ELSE IF Truthy(value_business_type)
        THEN Put(existing, "business_type", value_business_type)
        ELSE existing

\* lines 181-194: union of items.type of a key that is an array on both sides
MergeItemTypes(existing_items, value_items) ==
    LET existing_item_type == Get(existing_items, "type")
        value_item_type == Get(value_items, "type")
    IN  IF ~(Truthy(existing_item_type) /\ Truthy(value_item_type)) THEN existing_items
        ELSE IF existing_item_type = value_item_type THEN existing_items
        ELSE IF IsList(existing_item_type)
        THEN IF In(value_item_type, existing_item_type) THEN existing_items
             ELSE Put(existing_items, "type", ListAppend(existing_item_type, value_item_type))
        ELSE IF IsList(value_item_type)
        THEN IF In(existing_item_type, value_item_type) THEN existing_items
             ELSE Put(existing_items, "type", ListAppend(value_item_type, existing_item_type))
        ELSE Put(existing_items, "type", List(<<existing_item_type, value_item_type>>))

\* A copy that keeps the structural keys of the property schema only
NewKeyDropsBusinessType(value) ==
    [k \in DOMAIN value \ {"business_type"} |-> value[k]]

\* line 162: a key not yet in merged is copied in
NewKey(value) == value

RECURSIVE MergeProperties(_, _)

\* lines 165-237: a key present in merged and in prop_dict
MergeExisting(existing, value, use_business_types) ==
    IF Get(existing, "type") = Tag("object") /\ Get(value, "type") = Tag("object")
    THEN Put(existing, "properties",
             MergeProperties(<<GetDict(existing, "properties"), GetDict(value, "properties")>>,
                             use_business_types))
    ELSE IF Get(existing, "type") = Tag("array") /\ Get(value, "type") = Tag("array")
    THEN LET value_items == GetDict(value, "items")
             typed == MergeItemTypes(GetDict(existing, "items"), value_items)
             existing_items ==
                 IF Get(typed, "type") = Tag("object") /\ Get(value_items, "type") = Tag("object")
                 THEN Put(typed, "properties",
                          MergeProperties(<<GetDict(typed, "properties"),
                                            GetDict(value_items, "properties")>>,
                                          use_business_types))
                 ELSE typed
         IN  Put(existing, "items", existing_items)
    ELSE MergeBusinessTypes(MergeTypes(existing, value), value, use_business_types)

\* lines 159-237: the body of the loop over properties_list, for one prop_dict
MergeInto(merged, prop_dict, use_business_types) ==
    [key \in DOMAIN merged \cup DOMAIN prop_dict |->
        IF key \notin DOMAIN merged THEN NewKey(prop_dict[key])
        ELSE IF key \notin DOMAIN prop_dict THEN merged[key]
        ELSE MergeExisting(merged[key], prop_dict[key], use_business_types)]

RECURSIVE MergeLoop(_, _, _, _)
\* lines 157-158: merged = {}; for prop_dict in properties_list
MergeLoop(merged, properties_list, i, use_business_types) ==
    IF i > Len(properties_list) THEN merged
    ELSE MergeLoop(MergeInto(merged, properties_list[i], use_business_types),
                   properties_list, i + 1, use_business_types)

\* lines 139-239
MergeProperties(properties_list, use_business_types) ==
    IF properties_list = <<>> THEN EmptyDict
    ELSE MergeLoop(EmptyDict, properties_list, 1, use_business_types)

----------------------------------------------------------------------------
(* _merge_properties on objects: the dicts and lists of the argument are
   objects of a heap, so that a copy (line 162) shares the lists and nested
   dicts of the input, and append / item assignment change an object in
   place.  A heap is a sequence of objects; a value is a tag, None, a
   description, or a reference to an object. *)

\* a properties dict: key -> reference to a property schema
HProps(map) == [kind |-> "props", map |-> map]

\* a property schema or items dict: field -> value
HProp(map) == [kind |-> "prop", map |-> map]

\* a list of tags
HList(elems) == [kind |-> "list", elems |-> elems]

Ref(a) == [ref |-> a]

IsRef(v) == "ref" \in DOMAIN v

\* a new object
Alloc(h, obj) == [h |-> Append(h, obj), v |-> Ref(Len(h) + 1)]

\* d.get(k)
HGet(h, d, k) == IF k \in DOMAIN h[d.ref].map THEN h[d.ref].map[k] ELSE None

\* d[k] = v
HSet(h, d, k, v) == [h EXCEPT ![d.ref] = [@ EXCEPT !.map = Put(@, k, v)]]

\* l.append(v)
HAppend(h, l, v) == [h EXCEPT ![l.ref] = [@ EXCEPT !.elems = Append(@, v)]]

\* the fields of a property schema
FieldOrder == <<"type", "description", "business_type", "properties", "items">>

RECURSIVE LoadType(_, _)
RECURSIVE LoadElems(_, _, _, _)
RECURSIVE LoadFields(_, _, _, _)
RECURSIVE LoadKeys(_, _, _, _)

\* a "type" or "business_type" value as objects: each list is an object
LoadType(h, t) ==
    IF IsList(t)
    THEN LET r == LoadElems(h, t.elems, 1, <<>>) IN Alloc(r.h, HList(r.v))
    ELSE [h |-> h, v |-> t]

LoadElems(h, elems, i, acc) ==
    IF i > Len(elems) THEN [h |-> h, v |-> acc]
    ELSE LET r == LoadType(h, elems[i])
         IN  IF r.h = h THEN LoadElems(h, elems, i + 1, Append(acc, r.v))
             ELSE LoadElems(r.h, elems, i + 1, Append(acc, r.v))

\* a property schema as objects
LoadFields(h, prop, i, map) ==
    IF i > Len(FieldOrder) THEN Alloc(h, HProp(map))
    ELSE LET f == FieldOrder[i]
         IN  IF f \notin DOMAIN prop THEN LoadFields(h, prop, i + 1, map)
             ELSE LET r == CASE f \in {"type", "business_type"} -> LoadType(h, prop[f])
                             [] f = "description" -> [h |-> h, v |-> prop[f]]
                             [] f = "properties" -> LoadKeys(h, prop[f], DOMAIN prop[f], <<>>)
                             [] f = "items" -> LoadFields(h, prop[f], 1, <<>>)
                  IN  IF r.h = h THEN LoadFields(h, prop, i + 1, Put(map, f, r.v))
                      ELSE LoadFields(r.h, prop, i + 1, Put(map, f, r.v))

\* a properties dict as objects
LoadKeys(h, props, keys, map) ==
    IF keys = {} THEN Alloc(h, HProps(map))
    ELSE LET key == CHOOSE k \in keys : TRUE
             r == LoadFields(h, props[key], 1, <<>>)
         IN  IF r.h = h THEN LoadKeys(h, props, keys \ {key}, Put(map, key, r.v))
             ELSE LoadKeys(r.h, props, keys \ {key}, Put(map, key, r.v))

RECURSIVE LoadList(_, _, _, _)
\* properties_list as objects: every map is an object of its own
LoadList(h, properties_list, i, refs) ==
    IF i > Len(properties_list) THEN [h |-> h, v |-> refs]
    ELSE LET r == LoadKeys(h, properties_list[i], DOMAIN properties_list[i], <<>>)
         IN  IF r.h = h THEN LoadList(h, properties_list, i + 1, Append(refs, r.v))
             ELSE LoadList(r.h, properties_list, i + 1, Append(refs, r.v))

RECURSIVE DerefType(_, _)
RECURSIVE DerefProp(_, _)
RECURSIVE DerefProps(_, _)

\* the value a "type" or "business_type" holds
DerefType(h, v) ==
    IF IsRef(v)
    THEN List([i \in DOMAIN h[v.ref].elems |-> DerefType(h, h[v.ref].elems[i])])
    ELSE v

\* the value of a property schema
DerefProp(h, v) ==
    LET map == h[v.ref].map
    IN  [f \in DOMAIN map |->
            CASE f \in {"type", "business_type"} -> DerefType(h, map[f])
              [] f = "description" -> map[f]
              [] f = "properties" -> DerefProps(h, map[f])
              [] f = "items" -> DerefProp(h, map[f])]

\* the value of a properties dict
DerefProps(h, v) ==
    LET map == h[v.ref].map
    IN  [key \in DOMAIN map |-> DerefProp(h, map[key])]

\* d.get(k, {}): the dict under k, or a new empty one
HGetDict(h, d, k, empty) ==
    IF k \in DOMAIN h[d.ref].map THEN [h |-> h, v |-> h[d.ref].map[k]] ELSE Alloc(h, empty)

\* lines 206-219 (and 181-194 with field "type" of the items dicts)
MergeTypesH(h, existing, value, field) ==
    LET existing_type == HGet(h, existing, field)
        value_type == HGet(h, value, field)
        e == DerefType(h, existing_type)
        v == DerefType(h, value_type)
    IN  IF e = v THEN h
        ELSE IF IsRef(existing_type)
        THEN IF In(v, e) THEN h ELSE HAppend(h, existing_type, value_type)
        ELSE IF IsRef(value_type)
        THEN IF In(e, v) THEN h
             ELSE HSet(HAppend(h, value_type, existing_type), existing, field, value_type)
        ELSE LET l == Alloc(h, HList(<<existing_type, value_type>>))
             IN  HSet(l.h, existing, field, l.v)

\* lines 181-194
MergeItemTypesH(h, existing_items, value_items) ==
    IF /\ Truthy(DerefType(h, HGet(h, existing_items, "type")))
       /\ Truthy(DerefType(h, HGet(h, value_items, "type")))
    THEN MergeTypesH(h, existing_items, value_items, "type")
    ELSE h

\* lines 222-237
MergeBusinessTypesH(h, existing, value, use_business_types) ==
    LET existing_business_type == HGet(h, existing, "business_type")
        value_business_type == HGet(h, value, "business_type")
        e == DerefType(h, existing_business_type)
        v == DerefType(h, value_business_type)
    IN  IF ~use_business_types \/ e = v THEN h
        ELSE IF IsRef(existing_business_type)
        THEN IF Truthy(v) /\ ~In(v, e)
             THEN HAppend(h, existing_business_type, value_business_type)
             ELSE h
        ELSE IF IsRef(value_business_type)
        THEN IF Truthy(e) /\ ~In(e, v)
             THEN HSet(HAppend(h, value_business_type, existing_business_type),
                       existing, "business_type", value_business_type)
             ELSE h
        ELSE IF Truthy(e) /\ Truthy(v)
        THEN LET l == Alloc(h, HList(<<existing_business_type, value_business_type>>))
             IN  HSet(l.h, existing, "business_type", l.v)
        ELSE IF Truthy(v) THEN HSet(h, existing, "business_type", value_business_type)
        ELSE h

RECURSIVE MergePropertiesH(_, _, _)
RECURSIVE MergeKeysH(_, _, _, _, _)
RECURSIVE MergeLoopH(_, _, _, _, _)

\* lines 170-173 and 197-201: the properties of two dicts merged and stored
MergeNestedH(h, existing, value, use_business_types) ==
    LET a == HGetDict(h, existing, "properties", HProps(<<>>))
        b == HGetDict(a.h, value, "properties", HProps(<<>>))
        r == MergePropertiesH(b.h, <<a.v, b.v>>, use_business_types)
    IN  HSet(r.h, existing, "properties", r.v)

\* lines 165-237: a key present in merged and in prop_dict
MergeExistingH(h, existing, value, use_business_types) ==
    LET existing_type == DerefType(h, HGet(h, existing, "type"))
        value_type == DerefType(h, HGet(h, value, "type"))
    IN  IF existing_type = Tag("object") /\ value_type = Tag("object")
        THEN MergeNestedH(h, existing, value, use_business_types)
        ELSE IF existing_type = Tag("array") /\ value_type = Tag("array")
        THEN LET a == HGetDict(h, existing, "items", HProp(<<>>))
                 b == HGetDict(a.h, value, "items", HProp(<<>>))
                 typed == MergeItemTypesH(b.h, a.v, b.v)
                 nested ==
                     IF /\ DerefType(typed, HGet(typed, a.v, "type")) = Tag("object")
                        /\ DerefType(typed, HGet(typed, b.v, "type")) = Tag("object")
                     THEN MergeNestedH(typed, a.v, b.v, use_business_types)
                     ELSE typed
             IN  HSet(nested, existing, "items", a.v)
        ELSE MergeBusinessTypesH(MergeTypesH(h, existing, value, "type"),
                                 existing, value, use_business_types)

\* lines 159-237 for the keys of one prop_dict; line 162 copies the dict only
MergeKeysH(h, merged, prop_dict, keys, use_business_types) ==
    IF keys = {} THEN h
    ELSE LET key == CHOOSE k \in keys : TRUE
             value == h[prop_dict.ref].map[key]
             next == IF key \notin DOMAIN h[merged.ref].map
                     THEN LET copy == Alloc(h, HProp(h[value.ref].map))
                          IN  HSet(copy.h, merged, key, copy.v)
                     ELSE MergeExistingH(h, h[merged.ref].map[key], value, use_business_types)
         IN  IF next = h THEN MergeKeysH(h, merged, prop_dict, keys \ {key}, use_business_types)
             ELSE MergeKeysH(next, merged, prop_dict, keys \ {key}, use_business_types)

\* lines 157-158
MergeLoopH(h, merged, properties_list, i, use_business_types) ==
    IF i > Len(properties_list) THEN h
    ELSE LET next == MergeKeysH(h, merged, properties_list[i],
                                DOMAIN h[properties_list[i].ref].map, use_business_types)
         IN  IF next = h THEN MergeLoopH(h, merged, properties_list, i + 1, use_business_types)
             ELSE MergeLoopH(next, merged, properties_list, i + 1, use_business_types)

\* lines 139-239 on objects: the heap after the call and the dict returned
MergePropertiesH(h, properties_list, use_business_types) ==
    LET merged == Alloc(h, HProps(<<>>))
    IN  [h |-> MergeLoopH(merged.h, merged.v, properties_list, 1, use_business_types),
         v |-> merged.v]

\* the call on a list of property maps: what it returns, and what the maps
\* of the list hold afterwards
MergeCall(properties_list, use_business_types) ==
    LET loaded == LoadList(<<>>, properties_list, 1, <<>>)
        r == MergePropertiesH(loaded.h, loaded.v, use_business_types)
    IN  [returned |-> DerefProps(r.h, r.v),
         arguments |-> [i \in DOMAIN properties_list |-> DerefProps(r.h, loaded.v[i])]]

----------------------------------------------------------------------------
(* Property maps the merger is applied to: the shapes _process_nested_object
   produces for one field (lines 49-132), and property schemas whose
   type / business_type are already lists, as a merge result has them. *)

kx == <<"x">>

kp == <<"p">>


kxp == <<"x", ".", "p">>



\* Property schemas of field x as one record yields them
RecordProps ==
    { Prim(Tag("string"), kx),
      WithBusinessType(Prim(Tag("string"), kx), Tag("email")),
      WithBusinessType(Prim(Tag("number"), kx), Tag("timestamp")),
      Obj(kp :> Prim(Tag("string"), kxp), kx),
      EmptyArr(kx),
      Arr("type" :> Tag("string"), kx),
      Arr("type" :> List(<<Tag("integer"), Tag("string")>>), kx),
      Arr("type" :> List(<<Tag("string"), Tag("null")>>), kx) }

\* Property schemas of field x whose type / business_type are lists already
ListProps ==
    { Prim(List(<<Tag("string"), Tag("integer")>>), kx),
      WithBusinessType(Prim(Tag("string"), kx), List(<<Tag("email"), Tag("url")>>)) }

SampleMaps == {EmptyDict} \cup {kx :> p : p \in RecordProps \cup ListProps}

PerRecordMaps == {EmptyDict} \cup {kx :> p : p \in RecordProps}

----------------------------------------------------------------------------
(* SpecMerge: _merge_properties applied to a list of property maps, as one
   N-ary call, as a pairwise left-to-right fold, right-nested, and permuted *)

MaxMaps == 3

Lists == UNION {[1..n -> SampleMaps] : n \in 2..MaxMaps}

Perms(n) == {f \in [1..n -> 1..n] : \A i, j \in 1..n : f[i] = f[j] => i = j}

Permuted(l, f) == [i \in 1..Len(l) |-> l[f[i]]]

MergeInit ==
    /\ plist \in Lists
    /\ ubt \in BOOLEAN
    /\ nary = EmptyDict
    /\ foldAcc = EmptyDict
    /\ foldIdx = 0
    /\ rinner = EmptyDict
    /\ router = EmptyDict
    /\ perm = <<>>
    /\ permRes = EmptyDict
    /\ done = {}
    /\ plistAfter = <<>>
    /\ JsonlIdle
    /\ CsvIdle
    /\ InferIdle
    /\ OuterIdle

\* _merge_properties(plist, ubt)
MergeAll ==
    /\ "nary" \notin done
    /\ nary' = MergeProperties(plist, ubt)
    /\ plistAfter' = MergeCall(plist, ubt).arguments
    /\ done' = done \cup {"nary"}
    /\ UNCHANGED <<plist, ubt, foldAcc, foldIdx, rinner, router, perm, permRes>>
    /\ UNCHANGED <<jsonlVars, csvVars, inferVars, outerVars>>

\* _merge_properties([S1, S2], ubt)
FoldStart ==
    /\ "nary" \in done
    /\ foldIdx = 0
    /\ foldAcc' = MergeProperties(<<plist[1], plist[2]>>, ubt)
    /\ foldIdx' = 3
    /\ done' = IF Len(plist) < 3 THEN done \cup {"fold"} ELSE done
    /\ UNCHANGED <<plist, ubt, nary, rinner, router, perm, permRes, plistAfter>>
    /\ UNCHANGED <<jsonlVars, csvVars, inferVars, outerVars>>

\* _merge_properties([acc, Si], ubt)
FoldStep ==
    /\ foldIdx >= 3
    /\ foldIdx <= Len(plist)
    /\ foldAcc' = MergeProperties(<<foldAcc, plist[foldIdx]>>, ubt)
    /\ foldIdx' = foldIdx + 1
    /\ done' = IF foldIdx = Len(plist) THEN done \cup {"fold"} ELSE done
    /\ UNCHANGED <<plist, ubt, nary, rinner, router, perm, permRes, plistAfter>>
    /\ UNCHANGED <<jsonlVars, csvVars, inferVars, outerVars>>

\* _merge_properties([B, C], ubt)
RightInner ==
    /\ "fold" \in done
    /\ Len(plist) = 3
    /\ "rinner" \notin done
    /\ rinner' = MergeProperties(<<plist[2], plist[3]>>, ubt)
    /\ done' = done \cup {"rinner"}
    /\ UNCHANGED <<plist, ubt, nary, foldAcc, foldIdx, router, perm, permRes, plistAfter>>
    /\ UNCHANGED <<jsonlVars, csvVars, inferVars, outerVars>>

\* _merge_properties([A, _merge_properties([B, C])], ubt)
RightOuter ==
    /\ "rinner" \in done
    /\ "router" \notin done
    /\ router' = MergeProperties(<<plist[1], rinner>>, ubt)
    /\ done' = done \cup {"router"}
    /\ UNCHANGED <<plist, ubt, nary, foldAcc, foldIdx, rinner, perm, permRes, plistAfter>>
    /\ UNCHANGED <<jsonlVars, csvVars, inferVars, outerVars>>

\* _merge_properties of a permutation of plist
MergePermuted ==
    /\ "fold" \in done
    /\ Len(plist) = 3 => "router" \in done
    /\ "perm" \notin done
    /\ \E f \in Perms(Len(plist)) :
          /\ perm' = f
          /\ permRes' = MergeProperties(Permuted(plist, f), ubt)
    /\ done' = done \cup {"perm"}
    /\ UNCHANGED <<plist, ubt, nary, foldAcc, foldIdx, rinner, router, plistAfter>>
    /\ UNCHANGED <<jsonlVars, csvVars, inferVars, outerVars>>

MergeNext ==
    \/ MergeAll
    \/ FoldStart
    \/ FoldStep
    \/ RightInner
    \/ RightOuter
    \/ MergePermuted

SpecMerge == MergeInit /\ [][MergeNext]_vars

----------------------------------------------------------------------------
(* generate_jsonl_schema *)

SchemaUri == "http://json-schema.org/draft-07/schema#"

\* lines 326: all_field_presence[full_key] = all_field_presence.get(full_key, 0) + 1
CountField(presence, full_key) ==
    IF \E j \in DOMAIN presence : presence[j][1] = full_key
    THEN [j \in DOMAIN presence |->
            IF presence[j][1] = full_key THEN <<full_key, presence[j][2] + 1>> ELSE presence[j]]
    ELSE Append(presence, <<full_key, 1>>)

RECURSIVE TrackFields(_, _, _, _)
\* lines 323-331: track_fields(d, prefix), over the items of d from the i-th on
TrackFields(presence, pairs, i, prefix) ==
    IF i > Len(pairs) THEN presence
    ELSE LET key == pairs[i][1]
             value == pairs[i][2]
             full_key == IF prefix # <<>> THEN prefix \o <<".">> \o key ELSE key
             counted == CountField(presence, full_key)
             nested ==
                 IF value.k = "dict" THEN TrackFields(counted, value.pairs, 1, full_key)
                 ELSE IF value.k = "list" /\ value.items # <<>> /\ value.items[1].k = "dict"
                 THEN TrackFields(counted, value.items[1].pairs, 1, full_key \o <<"[", "]">>)
                 ELSE counted
         IN  TrackFields(nested, pairs, i + 1, prefix)

RECURSIVE RequiredFields(_, _)
\* lines 355-360
RequiredFields(presence, rows) ==
    IF presence = <<>> THEN <<>>
    ELSE (IF Head(presence)[2] = rows /\ ~HasChar(Head(presence)[1], ".")
          THEN <<Head(presence)[1]>> ELSE <<>>)
         \o RequiredFields(Tail(presence), rows)

\* lines 339-344
EmptySchema ==
    ("$schema" :> SchemaUri) @@ ("type" :> "object") @@ ("properties" :> EmptyDict)
        @@ ("required" :> <<>>)

\* lines 349-377
BuildSchema(schemas, presence, rows, ubt_arg) ==
    LET merged_properties == MergeProperties(schemas, ubt_arg)
    IN  ("$schema" :> SchemaUri) @@ ("type" :> "object")
            @@ ("properties" :> merged_properties)
            @@ ("required" :> RequiredFields(presence, rows))
            @@ ("metadata" :> [num_rows |-> rows,
                               num_fields |-> Cardinality(DOMAIN merged_properties),
                               file_type |-> "jsonl"])

----------------------------------------------------------------------------
(* SpecJsonl: generate_jsonl_schema reading a file line by line.  A line is
   its text, [raw |-> chars], or, for a line that holds the JSON text of a
   value, the value json.loads decodes it to, [json |-> value], or, for a
   line of JSON text that json.loads gives up on with an error that is no
   JSONDecodeError, that error, [undecodable |-> error]. *)

ja == <<"a">>

jb == <<"b">>

jab == <<"a", ".", "b">>

BlankLines == {<<" ", "\n">>}

MalformedLines == {<<"{", "\"", "a", "\"", ":", "\n">>}

NonObjectValues == {JInt(<<"5">>)}

\* json.loads(line) raises ValueError for an integer literal of more digits
\* than the interpreter converts (4300 by default), and RecursionError for
\* arrays or objects nested deeper than the interpreter's recursion limit
UndecodableErrors == {"ValueError", "RecursionError"}

Records ==
    { JDict(<< <<ja, JInt(<<"7">>)>> >>),
      JDict(<< <<ja, JStr(<<"x">>)>>, <<jb, JNull>> >>),
      JDict(<< <<(<<>>), JDict(<< <<kx, JInt(<<"5">>)>> >>)>> >>),
      JDict(<< <<jab, JStr(<<"x">>)>> >>),
      JDict(<< <<ja, JList(<<JInt(<<"7">>), JStr(<<"x">>)>>)>> >>),
      JDict(<< <<ja, JList(<<JFloat(<<"2", ".", "5">>), JStr(<<"x">>)>>)>> >>) }

jvalue == <<"v", "a", "l", "u", "e">>

\* the records {"value": "text"}, {"value": 123}, {"value": 45.67}
\* records with an empty array, arrays of strings and of objects, and the integer 1
ArrayRecords ==
    { JDict(<< <<ja, JList(<<>>)>> >>),
      JDict(<< <<ja, JList(<<JStr(<<"x">>)>>)>> >>),
      JDict(<< <<ja, JList(<<JDict(<< <<kx, JInt(<<"5">>)>> >>)>>)>> >>),
      JDict(<< <<ja, JInt(<<"1">>)>> >>) }

ScenarioRecords ==
    { JDict(<< <<jvalue, JStr(<<"t", "e", "x", "t">>)>> >>),
      JDict(<< <<jvalue, JInt(<<"1", "2", "3">>)>> >>),
      JDict(<< <<jvalue, JFloat(<<"4", "5", ".", "6", "7">>)>> >>) }

MaxLines == 3

MaxSampleRows == 3

\* lines 294-302: the state on entering the loop
JsonlInit ==
    /\ pool \in {Records, ScenarioRecords, ArrayRecords}
    /\ lines = <<>>
    /\ sample_rows \in 1..MaxSampleRows
    /\ jsonl_business_types \in BOOLEAN
    /\ row_count = 0
    /\ total_rows = 0
    /\ object_schemas = <<>>
    /\ all_field_presence = <<>>
    /\ schema = EmptyDict
    /\ pc = "reading"
    /\ MergeIdle
    /\ CsvIdle
    /\ InferIdle
    /\ OuterIdle

\* the cap tested after the line is processed
TakesLineOneMore ==
    /\ pc = "reading"
    /\ Len(lines) < MaxLines
    /\ row_count <= sample_rows

\* lines 302-304: the loop takes one more line
TakesLine ==
    /\ pc = "reading"
    /\ Len(lines) < MaxLines
    /\ row_count < sample_rows

\* lines 306-308: a line that strips to nothing
ReadBlank ==
    /\ TakesLine
    /\ \E raw \in BlankLines :
          /\ Strip(raw) = <<>>
          /\ lines' = Append(lines, [raw |-> raw])
    /\ UNCHANGED <<pool, sample_rows, jsonl_business_types, row_count, total_rows, object_schemas,
                   all_field_presence, schema, pc>>
    /\ UNCHANGED <<mergeVars, csvVars, inferVars, outerVars>>

\* lines 310-311, 335-337: json.loads raises
ReadMalformed ==
    /\ TakesLine
    /\ \E raw \in MalformedLines :
          /\ Strip(raw) # <<>>
          /\ ~JsonLoads(Strip(raw))
          /\ lines' = Append(lines, [raw |-> raw])
    /\ UNCHANGED <<pool, sample_rows, jsonl_business_types, row_count, total_rows, object_schemas,
                   all_field_presence, schema, pc>>
    /\ UNCHANGED <<mergeVars, csvVars, inferVars, outerVars>>

\* lines 310-316: a line of JSON that is no object
ReadNonObject ==
    /\ TakesLine
    /\ \E value \in NonObjectValues :
          /\ value.k # "dict"
          /\ lines' = Append(lines, [json |-> value])
    /\ total_rows' = total_rows + 1
    /\ UNCHANGED <<pool, sample_rows, jsonl_business_types, row_count, object_schemas,
                   all_field_presence, schema, pc>>
    /\ UNCHANGED <<mergeVars, csvVars, inferVars, outerVars>>

\* line 319: _process_nested_object(obj, "", sample_rows, use_business_types)
\* for each record a file can hold, by use_business_types and by the order
\* the sets of the call iterate in
RecordSchemas ==
    [obj \in Records \cup ScenarioRecords \cup ArrayRecords, with_business_types \in BOOLEAN, order \in SetOrders |->
        ProcessNestedObject(obj, <<>>, with_business_types, order)]

\* lines 310-333: an object record
ReadObject ==
    /\ TakesLine
    /\ \E obj \in pool, order \in SetOrders :
          /\ lines' = Append(lines, [json |-> obj])
          /\ object_schemas' =
                Append(object_schemas, RecordSchemas[obj, jsonl_business_types, order])
          /\ all_field_presence' = TrackFields(all_field_presence, obj.pairs, 1, <<>>)
    /\ total_rows' = total_rows + 1
    /\ row_count' = row_count + 1
    /\ UNCHANGED <<pool, sample_rows, jsonl_business_types, schema, pc>>
    /\ UNCHANGED <<mergeVars, csvVars, inferVars, outerVars>>

\* lines 310-337: json.loads raises an error the except clause does not name
\* (it names json.JSONDecodeError only), and the call ends with it
ReadUndecodable ==
    /\ TakesLine
    /\ \E error \in UndecodableErrors :
          lines' = Append(lines, [undecodable |-> error])
    /\ pc' = "raised"
    /\ UNCHANGED <<pool, sample_rows, jsonl_business_types, row_count, total_rows,
                   object_schemas, all_field_presence, schema>>
    /\ UNCHANGED <<mergeVars, csvVars, inferVars, outerVars>>

\* the lines a file can hold
FileLines ==
    {[raw |-> raw] : raw \in BlankLines \cup MalformedLines}
        \cup {[json |-> value] : value \in NonObjectValues \cup pool}
        \cup {[undecodable |-> error] : error \in UndecodableErrors}

\* lines 302-304 and 339-379: with row_count at sample_rows the loop takes
\* one more line from the file and breaks without looking at it; the schema
\* is built and returned
Break ==
    /\ pc = "reading"
    /\ Len(lines) < MaxLines
    /\ row_count >= sample_rows
    /\ \E line \in FileLines : lines' = Append(lines, line)
    /\ pc' = "returned"
    /\ schema' = IF object_schemas = <<>> THEN EmptySchema
                 ELSE BuildSchema(object_schemas, all_field_presence, total_rows,
                                  jsonl_business_types)
    /\ UNCHANGED <<pool, sample_rows, jsonl_business_types, row_count, total_rows,
                   object_schemas, all_field_presence>>
    /\ UNCHANGED <<mergeVars, csvVars, inferVars, outerVars>>

\* lines 302 and 339-379: the file ends, and the schema is built and returned
Return ==
    /\ pc = "reading"
    /\ pc' = "returned"
    /\ schema' = IF object_schemas = <<>> THEN EmptySchema
                 ELSE BuildSchema(object_schemas, all_field_presence, total_rows,
                                  jsonl_business_types)
    /\ UNCHANGED <<pool, lines, sample_rows, jsonl_business_types, row_count, total_rows,
                   object_schemas, all_field_presence>>
    /\ UNCHANGED <<mergeVars, csvVars, inferVars, outerVars>>

JsonlNext ==
    \/ ReadBlank
    \/ ReadMalformed
    \/ ReadNonObject
    \/ ReadObject
    \/ ReadUndecodable
    \/ Break
    \/ Return

SpecJsonl == JsonlInit /\ [][JsonlNext]_vars

----------------------------------------------------------------------------
(* generate_jsonl_schema as a function of the file: what the call returns
   for a file of the given lines, the i-th object record getting the property
   map record_schemas[i] from _process_nested_object. *)

\* lines 292-301
LoopStart == [row_count |-> 0, total_rows |-> 0, presence |-> <<>>, raised |-> FALSE]

\* lines 306-335: the body of the loop for one line
FoldLine(st, line) ==
    IF "raw" \in DOMAIN line
    THEN st
    ELSE IF "undecodable" \in DOMAIN line
    THEN [st EXCEPT !.raised = TRUE]
    ELSE IF line.json.k # "dict"
    THEN [st EXCEPT !.total_rows = @ + 1]
    ELSE [st EXCEPT !.total_rows = @ + 1,
                    !.row_count = @ + 1,
                    !.presence = TrackFields(@, line.json.pairs, 1, <<>>)]

RECURSIVE FoldLines(_, _, _, _)
\* lines 302-337: the loop, from the i-th line of the file on
FoldLines(file, i, cap, st) ==
    IF i > Len(file) \/ st.raised \/ st.row_count >= cap THEN st
    ELSE FoldLines(file, i + 1, cap, FoldLine(st, file[i]))

\* what a call that ends with an exception leaves
Raised == [raised |-> TRUE]

\* lines 242-379
GenerateJsonlSchema(file, cap, record_schemas, with_business_types) ==
    LET st == FoldLines(file, 1, cap, LoopStart)
    IN  IF st.raised THEN Raised
        ELSE IF st.row_count = 0 THEN EmptySchema
        ELSE BuildSchema(SubSeq(record_schemas, 1, st.row_count), st.presence, st.total_rows,
                         with_business_types)

----------------------------------------------------------------------------
(* generate_csv_schema *)

ColumnPrefix == <<"C", "o", "l", "u", "m", "n", ":", " ">>

\* line 24: row.get(header, '') on the dict csv.DictReader makes of a row:
\* dict(zip(fieldnames, row)), then restval None for fieldnames[len(row):]
RowGet(row, fieldnames, header) ==
    LET at == {i \in DOMAIN fieldnames : fieldnames[i] = header}
    IN  IF \E i \in at : i > Len(row) THEN None
        ELSE Str(row[CHOOSE i \in at : \A j \in at : j <= i])

\* line 42
NonNullDataTypesKeepsNull(data_types) == data_types

NonNullDataTypes(data_types) == data_types \ {"null"}

\* lines 44-72: the type of a column
ColumnType(data_types, order) ==
    LET non_null_data_types == NonNullDataTypes(data_types)
    IN  IF non_null_data_types = {} THEN List(<<Tag("string"), Tag("null")>>)
        ELSE IF Cardinality(non_null_data_types) = 1
        THEN IF "null" \in data_types
             THEN List(<<ListOfSet(non_null_data_types, order)[1], Tag("null")>>)
             ELSE ListOfSet(non_null_data_types, order)[1]
        ELSE List(ListOfSet(non_null_data_types, order)
                    \o (IF "null" \in data_types THEN <<Tag("null")>> ELSE <<>>))

\* lines 50-63: required.append(header) is reached
ColumnRequiredIgnoresNull(data_types) == Cardinality(NonNullDataTypes(data_types)) = 1

ColumnRequired(data_types) ==
    /\ NonNullDataTypes(data_types) # {}
    /\ Cardinality(NonNullDataTypes(data_types)) = 1
    /\ "null" \notin data_types

\* lines 37-81: the property schema of a column
ColumnProp(header, data_types, business_types, order) ==
    LET prop == ("type" :> ColumnType(data_types, order))
                    @@ ("description" :> (ColumnPrefix \o header))
    IN  IF business_types = {} THEN prop
        ELSE Put(prop, "business_type",
                 IF Cardinality(business_types) = 1 THEN ListOfSet(business_types, order)[1]
                 ELSE List(ListOfSet(business_types, order)))

RECURSIVE CsvRequired(_, _)
\* lines 35-63: required, over the headers in order
CsvRequired(fieldnames, data_types) ==
    IF fieldnames = <<>> THEN <<>>
    ELSE (IF ColumnRequired(data_types[Head(fieldnames)]) THEN <<Head(fieldnames)>> ELSE <<>>)
         \o CsvRequired(Tail(fieldnames), data_types)

\* lines 34-90
CsvSchema(fieldnames, data_types, business_types, order) ==
    ("$schema" :> SchemaUri) @@ ("type" :> "object")
        @@ ("properties" :>
              [header \in {fieldnames[i] : i \in DOMAIN fieldnames} |->
                  ColumnProp(header, data_types[header], business_types[header], order)])
        @@ ("required" :> CsvRequired(fieldnames, data_types))

----------------------------------------------------------------------------
(* SpecCsv: generate_csv_schema reading a file row by row.  A row is the
   list of its cells, as csv.reader yields it. *)

\* the file name,age,email / John,30,john@x.com / Jane,25,jane@x.com
ScenarioHeaders == <<<<"n", "a", "m", "e">>, <<"a", "g", "e">>, <<"e", "m", "a", "i", "l">>>>

ScenarioRows ==
    { <<<<"J", "o", "h", "n">>, <<"3", "0">>, <<"j", "o", "h", "n", "@", "x", ".", "c", "o", "m">>>>,
      <<<<"J", "a", "n", "e">>, <<"2", "5">>, <<"j", "a", "n", "e", "@", "x", ".", "c", "o", "m">>>> }

HeaderChoices == {<<>>, <<ja>>, <<ja, jb>>, <<ja, ja>>, ScenarioHeaders}

Cells == {<<>>, <<" ">>, <<"x">>, <<"7">>, <<"a", "@", "b", ".", "c", "o">>}

MaxRows == 3

HeaderSet == {headers[i] : i \in DOMAIN headers}

\* rows that are not blank, of at most as many cells as there are headers
\* (one cell when there is no header); under the scenario's header, its rows
RowsFor(fieldnames) ==
    IF fieldnames = ScenarioHeaders THEN ScenarioRows
    ELSE UNION {[1..n -> Cells] : n \in 1..(IF fieldnames = <<>> THEN 1 ELSE Len(fieldnames))}

\* lines 10-18
CsvInit ==
    /\ headers \in HeaderChoices
    /\ csv_sample_rows \in 1..MaxSampleRows
    /\ csv_lines = 0
    /\ csv_row_count = 0
    /\ column_business_types = [header \in HeaderSet |-> {}]
    /\ column_data_types = [header \in HeaderSet |-> {}]
    /\ sampled = [header \in HeaderSet |-> {}]
    /\ csv_schema = <<>>
    /\ csv_pc = "reading"
    /\ MergeIdle
    /\ JsonlIdle
    /\ InferIdle
    /\ OuterIdle

\* csv.DictReader skips a row without cells (a blank line)
SkipBlankRow ==
    /\ csv_pc = "reading"
    /\ csv_lines < MaxRows
    /\ csv_lines' = csv_lines + 1
    /\ UNCHANGED <<headers, csv_sample_rows, csv_row_count, column_business_types,
                   column_data_types, sampled, csv_schema, csv_pc>>
    /\ UNCHANGED <<mergeVars, jsonlVars, inferVars, outerVars>>

\* lines 19-31: one row is sampled
ReadRow ==
    /\ csv_pc = "reading"
    /\ csv_lines < MaxRows
    /\ csv_row_count < csv_sample_rows
    /\ \E row \in RowsFor(headers) :
          /\ column_business_types' =
                [header \in HeaderSet |->
                    column_business_types[header]
                        \cup ({InferTypes(RowGet(row, headers, header)).business_type}
                                 \ {NoBusinessType})]
          /\ column_data_types' =
                [header \in HeaderSet |->
                    column_data_types[header]
                        \cup {InferTypes(RowGet(row, headers, header)).data_type}]
          /\ sampled' = [header \in HeaderSet |->
                            sampled[header] \cup {RowGet(row, headers, header)}]
    /\ csv_lines' = csv_lines + 1
    /\ csv_row_count' = csv_row_count + 1
    /\ UNCHANGED <<headers, csv_sample_rows, csv_schema, csv_pc>>
    /\ UNCHANGED <<mergeVars, jsonlVars, inferVars, outerVars>>

\* lines 19-21 and 33-90: with row_count at sample_rows the loop takes one
\* more row from the reader and breaks without looking at it; the schema is
\* built and returned
CsvBreak ==
    /\ csv_pc = "reading"
    /\ csv_lines < MaxRows
    /\ csv_row_count >= csv_sample_rows
    /\ csv_lines' = csv_lines + 1
    /\ csv_pc' = "returned"
    /\ \E order \in SetOrders :
          csv_schema' = CsvSchema(headers, column_data_types, column_business_types, order)
    /\ UNCHANGED <<headers, csv_sample_rows, csv_row_count, column_business_types,
                   column_data_types, sampled>>
    /\ UNCHANGED <<mergeVars, jsonlVars, inferVars, outerVars>>

\* lines 19 and 33-90: the file ends, and the schema is built and returned
CsvReturn ==
    /\ csv_pc = "reading"
    /\ csv_pc' = "returned"
    /\ \E order \in SetOrders :
          csv_schema' = CsvSchema(headers, column_data_types, column_business_types, order)
    /\ UNCHANGED <<headers, csv_sample_rows, csv_lines, csv_row_count, column_business_types,
                   column_data_types, sampled>>
    /\ UNCHANGED <<mergeVars, jsonlVars, inferVars, outerVars>>

CsvNext ==
    \/ SkipBlankRow
    \/ ReadRow
    \/ CsvBreak
    \/ CsvReturn

SpecCsv == CsvInit /\ [][CsvNext]_vars

----------------------------------------------------------------------------
(* SpecGenerators: one call of either generator *)

GeneratorsInit == JsonlInit \/ CsvInit

GeneratorsNext ==
    \/ ReadBlank
    \/ ReadMalformed
    \/ ReadNonObject
    \/ ReadObject
    \/ ReadUndecodable
    \/ Break
    \/ Return
    \/ SkipBlankRow
    \/ ReadRow
    \/ CsvBreak
    \/ CsvReturn

SpecGenerators == GeneratorsInit /\ [][GeneratorsNext]_vars

----------------------------------------------------------------------------
(* Properties of _merge_properties *)

\* The tags of a type / business_type value: of a tag itself, of the members
\* of a list; None has none
TagSet(t) ==
    IF t = None THEN {}
    ELSE IF IsList(t) THEN {t.elems[i] : i \in DOMAIN t.elems}
    ELSE {t}

\* A list whose members are all tags (no None, no list inside the list)
FlatList(t) == IsList(t) /\ \A i \in DOMAIN t.elems : "tag" \in DOMAIN t.elems[i]

NoDuplicate(t) == \A i, j \in DOMAIN t.elems : t.elems[i] = t.elems[j] => i = j

\* t is the union of the tags of a and b: the one tag when the union has one
\* member, and otherwise a flat list holding each tag of the union once
IsUnionOf(t, a, b) ==
    LET u == TagSet(a) \cup TagSet(b)
    IN  /\ \A m \in u : "tag" \in DOMAIN m
        /\ IF u = {} THEN t = None
           ELSE \/ Cardinality(u) = 1 /\ t \in u
                \/ FlatList(t) /\ NoDuplicate(t) /\ TagSet(t) = u

RECURSIVE TagOrderFree(_)
\* A type / business_type value with the order of its tags forgotten
TagOrderFree(t) ==
    IF IsList(t) THEN [tagset |-> {TagOrderFree(t.elems[i]) : i \in DOMAIN t.elems}]
    ELSE IF t = None THEN t
    ELSE [tagset |-> {t}]

RECURSIVE OrderFreeProp(_)
\* A property schema (or items schema) with the order of tags forgotten at
\* every depth.  The description, which also comes from the first record
\* seen, is left out of the comparison.
OrderFreeProp(prop) ==
    [k \in DOMAIN prop \ {"description"} |->
        CASE k \in {"type", "business_type"} -> TagOrderFree(prop[k])
          [] k = "properties" ->
                [key \in DOMAIN prop[k] |-> OrderFreeProp(prop[k][key])]
          [] k = "items" -> OrderFreeProp(prop[k])
          [] OTHER -> prop[k]]

OrderFreeMap(m) == [key \in DOMAIN m |-> OrderFreeProp(m[key])]

\* C1: merge(merge(A, B), C) equals merge(A, merge(B, C)) for any three
\* property maps A, B, C.
C1_MergeAssociative ==
    (Len(plist) = 3 /\ {"fold", "router"} \subseteq done) => foldAcc = router

\* C2: one N-ary call _merge_properties([S1, ..., Sn]) returns what the
\* pairwise left-to-right fold of S1, ..., Sn returns.
C2_NaryEqualsPairwiseFold ==
    {"nary", "fold"} \subseteq done => nary = foldAcc

\* C2 witness: three maps that all hold x with three different property
\* schemas were merged both ways, and the merge changed what S1 held.
C2_Witness ==
    /\ {"nary", "fold"} \subseteq done
    /\ Len(plist) = 3
    /\ \A i \in 1..3 : kx \in DOMAIN plist[i]
    /\ Cardinality({plist[i][kx] : i \in 1..3}) = 3
    /\ nary[kx] # plist[1][kx]
    /\ foldIdx = 4

\* C3: merging any permutation of a list of per-record property maps gives
\* the same result up to the order of the tags in type / business_type
\* lists (same keys, same tag sets, same nested properties and items).
C3_PermutationOnlyReordersTags ==
    ({"nary", "perm"} \subseteq done /\ \A i \in DOMAIN plist : plist[i] \in PerRecordMaps)
        => OrderFreeMap(nary) = OrderFreeMap(permRes)

\* Both sides hold x, and not as two objects nor as two arrays
PrimitiveMergeCase ==
    /\ Len(plist) = 2
    /\ "nary" \in done
    /\ kx \in DOMAIN plist[1] /\ kx \in DOMAIN plist[2]
    /\ ~(plist[1][kx]["type"] = Tag("object") /\ plist[2][kx]["type"] = Tag("object"))
    /\ ~(plist[1][kx]["type"] = Tag("array") /\ plist[2][kx]["type"] = Tag("array"))

\* C7: for a key present on both sides with primitive or mismatched types the
\* merged type holds every tag of both sides exactly once (the tag itself
\* when both sides agree on one tag), and business_type is unioned the same
\* way when business types are in use.
C7_PrimitiveTypesAreUnioned ==
    PrimitiveMergeCase =>
        /\ IsUnionOf(Get(nary[kx], "type"),
                     Get(plist[1][kx], "type"), Get(plist[2][kx], "type"))
        /\ ubt => IsUnionOf(Get(nary[kx], "business_type"),
                            Get(plist[1][kx], "business_type"),
                            Get(plist[2][kx], "business_type"))

\* Both sides hold x as an array whose items carry a type
ArrayMergeCase ==
    /\ Len(plist) = 2
    /\ "nary" \in done
    /\ \A i \in 1..2 :
          /\ kx \in DOMAIN plist[i]
          /\ plist[i][kx]["type"] = Tag("array")
          /\ "type" \in DOMAIN GetDict(plist[i][kx], "items")

\* C8: for a key that is an array on both sides the merged items.type is the
\* union of both sides' item tags: the tag itself if the union has one
\* member, otherwise a flat list holding every tag of both sides once.
C8_ItemTypesAreUnioned ==
    ArrayMergeCase =>
        IsUnionOf(Get(GetDict(nary[kx], "items"), "type"),
                  plist[1][kx]["items"]["type"], plist[2][kx]["items"]["type"])

----------------------------------------------------------------------------
(* Properties of generate_jsonl_schema *)

\* The lines of the file that hold an object record
ObjectLines ==
    {j \in DOMAIN lines : "json" \in DOMAIN lines[j] /\ lines[j].json.k = "dict"}

\* The lines the loop looked at: those up to the sample_rows-th object record
\* (a line after it was taken from the file by the break only)
ProcessedLines ==
    {j \in DOMAIN lines : Cardinality({i \in ObjectLines : i < j}) < sample_rows}

\* The object records that entered the merge
ObjectRecords == {lines[j].json : j \in ObjectLines \cap ProcessedLines}

\* The top-level field names of an object record
TopLevelKeys(obj) == {obj.pairs[i][1] : i \in DOMAIN obj.pairs}

\* The names listed in the returned schema's required
RequiredSet == {schema["required"][i] : i \in DOMAIN schema["required"]}

\* C4: a top-level field is in required if and only if it is present in every
\* object record that entered the merge, whatever blank, malformed and
\* non-object lines the source also holds.
C4_RequiredIffInEveryRecord ==
    (pc = "returned" /\ ObjectRecords # {}) =>
        \A obj \in ObjectRecords : \A field \in TopLevelKeys(obj) :
            field \in RequiredSet <=> \A other \in ObjectRecords : field \in TopLevelKeys(other)

\* C5: required holds only top-level field names of the records, and each of
\* them is a key of properties, whatever the key names (empty, with a '.').
C5_RequiredIsTopLevelAndInProperties ==
    pc = "returned" =>
        \A field \in RequiredSet :
            /\ field \in DOMAIN schema["properties"]
            /\ \E obj \in ObjectRecords : field \in TopLevelKeys(obj)

RECURSIVE TypeListsFlat(_)
\* Every type of a property schema (its own, of its nested properties, of
\* its items) that is a list is a flat list of tags without a duplicate
TypeListsFlat(prop) ==
    /\ ("type" \in DOMAIN prop /\ IsList(prop["type"])) =>
            FlatList(prop["type"]) /\ NoDuplicate(prop["type"])
    /\ "properties" \in DOMAIN prop =>
            \A key \in DOMAIN prop["properties"] : TypeListsFlat(prop["properties"][key])
    /\ "items" \in DOMAIN prop => TypeListsFlat(prop["items"])

\* C6: in the returned schema every type that is a list (of a top-level
\* property, a nested property or array items) is a flat list of tags with no
\* duplicate tag, so with "null" at most once.
C6_TypeListsFlatNoDuplicate ==
    pc = "returned" =>
        \A key \in DOMAIN schema["properties"] : TypeListsFlat(schema["properties"][key])

----------------------------------------------------------------------------
(* Properties of generate_csv_schema *)

\* D: the data types infer_types gives the values sampled for a column
SampledDataTypes(header) == {InferTypes(v).data_type : v \in sampled[header]}

\* C9: a column's type follows from the set D of the data types of its
\* sampled values: ["string", "null"] when D minus null is empty (also with
\* no data row at all); the one tag t of D minus null, as t when no null was
\* seen and as [t, "null"] otherwise; with several tags a list holding each
\* of them once, with "null" last if and only if a null was seen.
C9_ColumnTypeFromDataTypes ==
    csv_pc = "returned" =>
        \A header \in HeaderSet :
            LET D == SampledDataTypes(header)
                N == D \ {"null"}
                t == csv_schema["properties"][header]["type"]
            IN  IF N = {} THEN t = List(<<Tag("string"), Tag("null")>>)
                ELSE IF Cardinality(N) = 1
                THEN \E n \in N :
                        t = IF "null" \in D THEN List(<<Tag(n), Tag("null")>>) ELSE Tag(n)
                ELSE /\ FlatList(t)
                     /\ NoDuplicate(t)
                     /\ TagSet(t) = {Tag(d) : d \in D}
                     /\ "null" \in D => t.elems[Len(t.elems)] = Tag("null")

\* C9 witness: a schema was returned for two columns, one sampled with
\* values of several data types and a null, the other with empty values only.
C9_Witness ==
    /\ csv_pc = "returned"
    /\ \E header \in HeaderSet :
          /\ Cardinality(SampledDataTypes(header) \ {"null"}) > 1
          /\ "null" \in SampledDataTypes(header)
    /\ \E header \in HeaderSet :
          sampled[header] # {} /\ SampledDataTypes(header) = {"null"}

\* The headers listed in the returned schema's required
CsvRequiredSet == {csv_schema["required"][i] : i \in DOMAIN csv_schema["required"]}

\* C10: a column is in required if and only if its sampled values yield
\* exactly one non-null data type and none of them is empty or None; so an
\* all-null column and a column without data rows are not in required.
C10_RequiredIffOneTypeNoNull ==
    csv_pc = "returned" =>
        \A header \in HeaderSet :
            header \in CsvRequiredSet <=>
                /\ Cardinality(SampledDataTypes(header) \ {"null"}) = 1
                /\ \A v \in sampled[header] :
                      v # None /\ Strip(v.str) # <<>>

\* C10 witness: a schema was returned with one column in required and
\* another column, of one non-null data type and a missing cell, not in it.
C10_Witness ==
    /\ csv_pc = "returned"
    /\ \E header \in HeaderSet : header \in CsvRequiredSet
    /\ \E header \in HeaderSet :
          /\ header \notin CsvRequiredSet
          /\ Cardinality(SampledDataTypes(header) \ {"null"}) = 1
          /\ None \in sampled[header]

\* The scenario file was read: its two rows were sampled and the schema returned
ScenarioCsvRead ==
    /\ csv_pc = "returned"
    /\ headers = ScenarioHeaders
    /\ \A i \in DOMAIN headers :
          sampled[headers[i]] = {Str(row[i]) : row \in ScenarioRows}

\* C11: for the file name,age,email with the rows (John,30,john@x.com) and
\* (Jane,25,jane@x.com) the schema has properties.email.business_type "email",
\* properties.age.type "integer", and name, age and email in required.
C11_CsvScenario ==
    ScenarioCsvRead =>
        /\ csv_schema["properties"][ScenarioHeaders[3]]["business_type"] = Tag("email")
        /\ csv_schema["properties"][ScenarioHeaders[2]]["type"] = Tag("integer")
        /\ \A i \in DOMAIN ScenarioHeaders : ScenarioHeaders[i] \in CsvRequiredSet

\* The three scenario records were read, in the scenario's order, with
\* business types on (the default), and the schema returned
ScenarioJsonlRead ==
    /\ pc = "returned"
    /\ jsonl_business_types
    /\ Len(lines) = 3
    /\ \A i \in 1..3 : "json" \in DOMAIN lines[i] /\ lines[i].json.k = "dict"
    /\ lines[1].json = JDict(<< <<jvalue, JStr(<<"t", "e", "x", "t">>)>> >>)
    /\ lines[2].json = JDict(<< <<jvalue, JInt(<<"1", "2", "3">>)>> >>)
    /\ lines[3].json = JDict(<< <<jvalue, JFloat(<<"4", "5", ".", "6", "7">>)>> >>)

\* C12: for the records {"value": "text"}, {"value": 123}, {"value": 45.67}
\* properties.value.type is a list without duplicates that contains string,
\* integer, and float or number.
C12_JsonlMixedScenario ==
    ScenarioJsonlRead =>
        LET t == schema["properties"][jvalue]["type"]
        IN  /\ FlatList(t)
            /\ NoDuplicate(t)
            /\ {Tag("string"), Tag("integer")} \subseteq TagSet(t)
            /\ TagSet(t) \cap {Tag("float"), Tag("number")} # {}

\* C13: for a source without a decodable object record (no line, blank
\* lines, malformed lines, JSON values that are no objects) the call raises
\* nothing and returns a well-formed schema with properties {} and required [].
C13_NoRecordsGivesEmptySchema ==
    (pc # "reading" /\ ObjectLines = {}) =>
        /\ pc = "returned"
        /\ schema["$schema"] = SchemaUri
        /\ schema["type"] = "object"
        /\ schema["properties"] = EmptyDict
        /\ schema["required"] = <<>>

\* What the call gave: the schema it returned, or that it raised
Outcome == IF pc = "raised" THEN Raised ELSE schema

\* A line json.loads fails to decode
IsMalformedLine(line) ==
    \/ "undecodable" \in DOMAIN line
    \/ "raw" \in DOMAIN line /\ Strip(line.raw) # <<>> /\ ~JsonLoads(Strip(line.raw))

RECURSIVE WithoutMalformed(_)
\* The file with the lines json.loads fails to decode removed
WithoutMalformed(file) ==
    IF file = <<>> THEN <<>>
    ELSE (IF IsMalformedLine(Head(file)) THEN <<>> ELSE <<Head(file)>>)
         \o WithoutMalformed(Tail(file))

\* C14: a line json.loads fails to decode is never fatal and never enters
\* the fold: the call returns what it returns for the same source with these
\* lines removed, wherever they stand.
C14_MalformedLinesAreSkipped ==
    pc # "reading" =>
        Outcome = GenerateJsonlSchema(WithoutMalformed(lines), sample_rows, object_schemas,
                                      jsonl_business_types)

\* The file up to and including its cap-th object record (all of it when it
\* has fewer)
UpToRecord(file, cap) ==
    SubSeq(file, 1, Cardinality({j \in DOMAIN file :
                                    Cardinality({i \in 1..(j - 1) :
                                        "json" \in DOMAIN file[i] /\ file[i].json.k = "dict"})
                                        < cap}))

C16_ReadsAtMostSampleRows ==
    pc \in {"reading", "returned", "raised"} => Len(lines) <= sample_rows

----------------------------------------------------------------------------
(* infer_types called on one value: SpecInfer *)

\* characters the short arguments are written with
InferChars == {"0", "1", "-", " ", "t", ".", "%", ","}

\* longest argument written with InferChars
MaxChars == 3

ShortValues == UNION {[1..n -> InferChars] : n \in 0..MaxChars}

\* arguments that meet each rule of lines 22-195, several of them more than one
SampleValues ==
    {
      <<"2", "0", "2", "4", "-", "0", "1", "-", "1", "5">>,
      <<"0", "1", "-", "1", "5", "-", "2", "0", "2", "4">>,
      <<"1", "2", "3", "4", "5", "6", "7", "8", "9", "0", "1", "2", "3">>,
      <<"1", "2", "3", "4", "5", "6", "7", "8", "9", "0">>,
      <<"1", "2", "3", "4", "5">>,
      <<"1", "2", "3", "-", "4", "5", "6", "-", "7", "8", "9", "0">>,
      <<"a", "@", "b", ".", "c", "o">>,
      <<"a", "1", "b", "2", "c", "3", "d", "4", "-", "e", "5", "f", "6", "-", "a", "7", "b", "8", "-", "c", "9", "d", "0", "-", "e", "1", "f", "2", "a", "3", "b", "4", "c", "5", "d", "6">>,
      <<"h", "t", "t", "p", ":", "/", "/", "a", ".", "b">>,
      <<"1", "0", ".", "0", ".", "0", ".", "7">>,
      <<"1", ":", "2", ":", "3", ":", "4", ":", "5", ":", "6", ":", "7", ":", "8">>,
      <<"0", "0", ":", "1", "a", ":", "2", "b", ":", "3", "c", ":", "4", "d", ":", "5", "e">>,
      <<"[", "1", ",", "2", "]">>,
      <<"a", ",", "b">>,
      <<"$", "5">>,
      <<"1", "2", ":", "3", "0">>,
      <<"2", "0", "2", "4", "-", "0", "1", "-", "1", "5", "T", "1", "0", ":", "3", "0", ":", "0", "0">>,
      <<"-", "7">>,
      <<"-", "2", ".", "5">>,
      <<"s", "N", "a", "N">>,
      <<"K", "1", "A", " ", "0", "B", "1">>,
      <<"I", "S", "B", "N", " ", "1", "2", "3", "4", "5", "6", "7", "8", "9", "0">>,
      <<"Q", "U", "J", "D", "R", "E", "V", "G", "R", "0", "h", "J", "S", "k", "t", "M", "T", "U", "5", "P", "U", "F", "F", "S">>,
      <<"a", "b", "c", "d", "e", "f">>,
      <<"T", "R", "U", "E">>,
      <<"h", "e", "l", "l", "o">> }

\* twenty decimal digits: as many as the longest credit card number and one more
DigitRun ==
    << "1", "2", "3", "4", "5", "6", "7", "8", "9", "0",
       "1", "2", "3", "4", "5", "6", "7", "8", "9", "0" >>

\* digit strings of every length up to twenty, bare and with a sign
SignedDigitValues ==
    { sign \o SubSeq(DigitRun, 1, n) : sign \in {<<>>, <<"+">>, <<"-">>}, n \in 1..Len(DigitRun) }

\* open repeated beyond the depth the interpreter's recursion limit leaves to
\* json.loads, then closed as often: no rule of lines 22-71 matches a value
\* that starts with a bracket, lines 74-75 hold, and json.loads (line 77)
\* raises RecursionError, which line 79 does not catch
DeepJson(open) == [deep |-> open]

DeepJsonValues == {DeepJson("["), DeepJson("{")}

InferInit ==
    /\ infer_value \in {Str(chars) : chars \in ShortValues \cup SampleValues \cup SignedDigitValues}
                          \cup DeepJsonValues
    /\ infer_result = None
    /\ infer_pc = "called"
    /\ MergeIdle
    /\ JsonlIdle
    /\ CsvIdle
    /\ OuterIdle

\* lines 16-195: the call returns a pair
InferReturns ==
    /\ infer_pc = "called"
    /\ infer_value \notin DeepJsonValues
    /\ infer_result' = InferTypes(infer_value)
    /\ infer_pc' = "returned"
    /\ UNCHANGED <<infer_value, mergeVars, jsonlVars, csvVars, outerVars>>

\* line 77: json.loads raises RecursionError out of infer_types
InferRaises ==
    /\ infer_pc = "called"
    /\ infer_value \in DeepJsonValues
    /\ infer_pc' = "raised"
    /\ UNCHANGED <<infer_value, infer_result, mergeVars, jsonlVars, csvVars, outerVars>>

InferNext == InferReturns \/ InferRaises

SpecInfer == InferInit /\ [][InferNext]_vars

----------------------------------------------------------------------------
(* Properties of infer_types *)

\* the stripped text of the argument
InferText == Strip(infer_value.str)

\* the rules of lines 22-195 in the order the code tries them
RuleOrder ==
    << "boolean", "uuid", "email", "url", "ipv4", "ipv6", "mac", "credit card", "phone",
       "json", "comma list", "percentage", "currency", "date/time", "unix timestamp",
       "integer", "float", "decimal", "postal code", "isbn", "base64", "hex color", "string" >>

\* the condition under which a rule returns, taken alone
RuleMatches(rule, value) ==
    CASE rule = "boolean" -> Lower(value) \in BooleanLiterals
      [] rule = "uuid" -> Match(value, UuidPattern)
      [] rule = "email" -> Match(value, EmailPattern)
      [] rule = "url" -> Match(value, UrlPattern)
      [] rule = "ipv4" -> IsIpv4(value)
      [] rule = "ipv6" -> Match(value, Ipv6Pattern)
      [] rule = "mac" -> Match(value, MacPattern)
      [] rule = "credit card" -> IsCreditCard(value)
      [] rule = "phone" -> IsPhoneNumber(value)
      [] rule = "json" -> IsJson(value)
      [] rule = "comma list" -> IsCommaList(value)
      [] rule = "percentage" -> IsPercentage(value)
      [] rule = "currency" -> Match(value, CurrencyPattern)
      [] rule = "date/time" -> \E k \in DOMAIN DateTimeFormats : Strptime(value, DateTimeFormats[k])
      [] rule = "unix timestamp" -> IsUnixTimestamp(value)
      [] rule = "integer" -> IsIntLiteral(value)
      [] rule = "float" -> IsFloatLiteral(value)
      [] rule = "decimal" -> IsDecimalLiteral(value)
      [] rule = "postal code" -> \E pat \in PostalPatterns : Match(value, pat)
      [] rule = "isbn" -> \E pat \in IsbnPatterns : Match(value, pat)
      [] rule = "base64" -> IsBase64(value)
      [] rule = "hex color" -> Match(value, HexColorPattern)
      [] rule = "string" -> TRUE

\* the pair a rule returns when it matches
RuleResult(rule, value) ==
    CASE rule = "boolean" -> Pair(NoBusinessType, "boolean")
      [] rule = "uuid" -> Pair("uuid", "string")
      [] rule = "email" -> Pair("email", "string")
      [] rule = "url" -> Pair("url", "string")
      [] rule = "ipv4" -> Pair("ip_address", "string")
      [] rule = "ipv6" -> Pair("ipv6_address", "string")
      [] rule = "mac" -> Pair("mac_address", "string")
      [] rule = "credit card" -> Pair("credit_card", "string")
      [] rule = "phone" -> Pair("phone_number", "string")
      [] rule = "json" -> Pair("json", "string")
      [] rule = "comma list" -> Pair("array", "string")
      [] rule = "percentage" -> Pair("percentage", "number")
      [] rule = "currency" -> Pair("currency", "string")
      [] rule = "date/time" -> DateTimeResult(value)
      [] rule = "unix timestamp" -> Pair("timestamp", "number")
      [] rule = "integer" -> Pair(NoBusinessType, "integer")
      [] rule = "float" -> IF HasChar(Lower(value), "e") THEN Pair(NoBusinessType, "number")
                           ELSE IF HasChar(value, ".") THEN Pair(NoBusinessType, "float")
                           ELSE Pair(NoBusinessType, "number")
      [] rule = "decimal" -> Pair(NoBusinessType, "decimal")
      [] rule = "postal code" -> Pair("postal_code", "string")
      [] rule = "isbn" -> Pair("isbn", "string")
      [] rule = "base64" -> Pair("base64", "string")
      [] rule = "hex color" -> Pair("hex_color", "string")
      [] rule = "string" -> Pair(NoBusinessType, "string")

\* the earliest rule of RuleOrder that matches
FirstMatch(value) ==
    CHOOSE k \in DOMAIN RuleOrder :
        /\ RuleMatches(RuleOrder[k], value)
        /\ \A j \in 1..(k - 1) : ~RuleMatches(RuleOrder[j], value)

\* the texts the boolean rule is said to take
BooleanTexts ==
    { <<"t", "r", "u", "e">>, <<"f", "a", "l", "s", "e">>, <<"1">>, <<"0">>, <<"y", "e", "s">>, <<"n", "o">>, <<"y">>, <<"n">>, <<"t">>, <<"f">> }

\* C17: a value whose trimmed, lower-cased text is one of true, false, 1, 0,
\* yes, no, y, n, t, f is classified (None, 'boolean'); "0" and "1" are never
\* classified as integer or timestamp.
C17_BooleanLiteralsShadowLaterRules ==
    infer_pc = "returned" =>
        /\ Lower(InferText) \in BooleanTexts => infer_result = Pair(NoBusinessType, "boolean")
        /\ InferText \in {<<"0">>, <<"1">>} =>
               /\ infer_result.data_type # "integer"
               /\ infer_result.business_type # "timestamp"

\* " 0" was classified as boolean though the timestamp and the integer rule take it too
C17_Witness ==
    /\ infer_pc = "returned"
    /\ infer_value = Str(<<" ", "0">>)
    /\ RuleMatches("unix timestamp", InferText)
    /\ RuleMatches("integer", InferText)
    /\ infer_result = Pair(NoBusinessType, "boolean")

\* the data type fixed for each business type
FixedDataType ==
    [ business_type \in
        { "uuid", "email", "url", "ip_address", "ipv6_address", "mac_address", "credit_card",
          "phone_number", "json", "array", "currency", "postal_code", "isbn", "base64",
          "hex_color", "percentage", "timestamp", "date", "datetime" } |->
      CASE business_type \in {"percentage", "timestamp"} -> "number"
        [] business_type = "date" -> "date"
        [] business_type = "datetime" -> "datetime"
        [] OTHER -> "string" ]

AllowedPair(result) ==
    /\ result.data_type \in {"null", "boolean", "integer", "number", "float", "decimal", "string",
                             "date", "datetime"}
    /\ result.business_type # NoBusinessType =>
           /\ result.business_type \in DOMAIN FixedDataType
           /\ result.data_type = FixedDataType[result.business_type]

\* a returned pair is an allowed one, and (None, 'string') when no rule matches
ReturnsAllowedPair ==
    infer_pc = "returned" =>
        /\ AllowedPair(infer_result)
        /\ InferText # <<>> /\ (\A k \in 1..(Len(RuleOrder) - 1) : ~RuleMatches(RuleOrder[k], InferText))
               => infer_result = Pair(NoBusinessType, "string")

\* C18: infer_types returns for every input string, without raising, a pair
\* whose data type is present, is the one fixed for its business type, and
\* which is (None, 'string') when no rule matches.
C18_InferTypesTotalAllowedPair ==
    /\ infer_pc # "raised"
    /\ ReturnsAllowedPair

\* C19: the result is that of the earliest rule, in the fixed order, that the
\* value matches; a value matching both the phone rule and a date format is
\* classified (phone_number, string).
C19_FirstMatchWins ==
    infer_pc = "returned" /\ InferText # <<>> =>
        /\ infer_result = RuleResult(RuleOrder[FirstMatch(InferText)], InferText)
        /\ RuleMatches("phone", InferText) /\ RuleMatches("date/time", InferText)
               => infer_result = Pair("phone_number", "string")

\* "2024-01-15" matches the phone rule and a date format and came out as a phone number
C19_Witness ==
    /\ infer_pc = "returned"
    /\ infer_value = Str(<<"2", "0", "2", "4", "-", "0", "1", "-", "1", "5">>)
    /\ RuleMatches("phone", InferText)
    /\ RuleMatches("date/time", InferText)
    /\ infer_result = Pair("phone_number", "string")

----------------------------------------------------------------------------
(* Properties of generate_jsonl_schema without business types *)

\* the tags _python_type_to_json_schema_type returns
StructuralTags == {"null", "boolean", "integer", "number", "string", "array", "object"}

RECURSIVE AllTags(_)
\* the tags of a "type", however its lists nest
AllTags(t) ==
    IF t = None THEN {}
    ELSE IF IsList(t) THEN UNION {AllTags(t.elems[i]) : i \in DOMAIN t.elems}
    ELSE {t.tag}

RECURSIVE NoBusinessTypeKey(_)
\* a property schema holds no "business_type", nor do its properties and items
NoBusinessTypeKey(prop) ==
    /\ "business_type" \notin DOMAIN prop
    /\ "properties" \in DOMAIN prop =>
            \A key \in DOMAIN prop["properties"] : NoBusinessTypeKey(prop["properties"][key])
    /\ "items" \in DOMAIN prop => NoBusinessTypeKey(prop["items"])

RECURSIVE OnlyStructuralTags(_)
\* every "type" of a property schema, at any depth, is made of structural tags
OnlyStructuralTags(prop) ==
    /\ AllTags(Get(prop, "type")) \subseteq StructuralTags
    /\ "properties" \in DOMAIN prop =>
            \A key \in DOMAIN prop["properties"] : OnlyStructuralTags(prop["properties"][key])
    /\ "items" \in DOMAIN prop => OnlyStructuralTags(prop["items"])

\* the structural tags of the values the records hold under a top-level key
StructuralTagsOf(key) ==
    UNION { {PythonTypeToJsonSchemaType(obj.pairs[i][2]) :
                i \in {j \in DOMAIN obj.pairs : obj.pairs[j][1] = key}} :
            obj \in ObjectRecords }

\* C20: with use_business_types = False the schema holds no business_type key
\* at any depth and every type is the structural tag of the values: the
\* classifier has no influence.
C20_NoBusinessTypesWhenDisabled ==
    pc = "returned" /\ ~jsonl_business_types =>
        \A key \in DOMAIN schema["properties"] :
            /\ NoBusinessTypeKey(schema["properties"][key])
            /\ OnlyStructuralTags(schema["properties"][key])
            /\ AllTags(Get(schema["properties"][key], "type")) = StructuralTagsOf(key)

\* a scalar the classifier would retype, a nested object and an array of
\* scalars were read with business types disabled
C20_Witness ==
    /\ pc = "returned"
    /\ ~jsonl_business_types
    /\ JDict(<< <<ja, JInt(<<"7">>)>> >>) \in ObjectRecords
    /\ JDict(<< <<(<<>>), JDict(<< <<kx, JInt(<<"5">>)>> >>)>> >>) \in ObjectRecords
    /\ JDict(<< <<ja, JList(<<JInt(<<"7">>), JStr(<<"x">>)>>)>> >>) \in ObjectRecords
    /\ InferTypes(Str(<<"7">>)) = Pair("timestamp", "number")
    /\ AllTags(Get(schema["properties"][ja], "type")) = {"integer", "array"}

----------------------------------------------------------------------------
(* Properties of the returned jsonl schema's shape *)

\* C23: every schema generate_jsonl_schema returns, also for a source with no
\* decodable record, carries metadata with num_rows and num_fields, and
\* num_fields is the number of keys of properties.
C23_MetadataAlwaysPresent ==
    pc = "returned" =>
        /\ "metadata" \in DOMAIN schema
        /\ {"num_rows", "num_fields"} \subseteq DOMAIN schema["metadata"]
        /\ schema["metadata"]["num_fields"] = Cardinality(DOMAIN schema["properties"])

RECURSIVE ArraysCarryItems(_)
\* a property or items schema that describes an array carries "items", and so
\* do the schemas below it
ArraysCarryItems(prop) ==
    /\ "array" \in AllTags(Get(prop, "type")) => "items" \in DOMAIN prop
    /\ "properties" \in DOMAIN prop =>
            \A key \in DOMAIN prop["properties"] : ArraysCarryItems(prop["properties"][key])
    /\ "items" \in DOMAIN prop => ArraysCarryItems(prop["items"])

\* the values the processed records hold under a top-level key
ValuesOf(key) ==
    UNION { {obj.pairs[i][2] : i \in {j \in DOMAIN obj.pairs : obj.pairs[j][1] = key}} :
            obj \in ObjectRecords }

\* C25: an array's schema always carries items, and items is {} only if the
\* array was empty in every processed record: one non-empty array gives the
\* merged items a type, whatever the order of the records.
C25_ArrayItemsTyped ==
    pc = "returned" =>
        \A key \in DOMAIN schema["properties"] :
            /\ ArraysCarryItems(schema["properties"][key])
            /\ (\E value \in ValuesOf(key) : value.k = "list" /\ value.items # <<>>) =>
                   /\ "items" \in DOMAIN schema["properties"][key]
                   /\ "type" \in DOMAIN schema["properties"][key]["items"]

RECURSIVE ObjectsCarryProperties(_)
\* a property or items schema that describes an object carries "properties",
\* and so do the schemas below it
ObjectsCarryProperties(prop) ==
    /\ "object" \in AllTags(Get(prop, "type")) => "properties" \in DOMAIN prop
    /\ "properties" \in DOMAIN prop =>
            \A key \in DOMAIN prop["properties"] : ObjectsCarryProperties(prop["properties"][key])
    /\ "items" \in DOMAIN prop => ObjectsCarryProperties(prop["items"])

\* C26: with default options a schema that describes an object always carries
\* properties; for an array whose elements are all objects, items carries
\* properties holding the keys of the first element.
C26_ObjectsCarryProperties ==
    pc = "returned" /\ jsonl_business_types =>
        \A key \in DOMAIN schema["properties"] :
            /\ ObjectsCarryProperties(schema["properties"][key])
            /\ \A value \in ValuesOf(key) :
                   (/\ value.k = "list" /\ value.items # <<>>
                    /\ \A i \in DOMAIN value.items : value.items[i].k = "dict")
                   => /\ "properties" \in DOMAIN GetDict(schema["properties"][key], "items")
                      /\ TopLevelKeys(value.items[1])
                             \subseteq DOMAIN schema["properties"][key]["items"]["properties"]

\* the line of the i-th object record that was processed
RecordLine(i) ==
    CHOOSE j \in ObjectLines : Cardinality({m \in ObjectLines : m <= j}) = i

\* the type and business_type the claim gives a non-null scalar
ScalarTypeOf(value) ==
    LET structural == PythonTypeToJsonSchemaType(value)
        inferred == InferTypes(Str(PyStr(value)))
    IN  [type |-> IF inferred.data_type # structural /\ inferred.data_type # "null"
                  THEN inferred.data_type ELSE structural,
         business_type |-> inferred.business_type]

IsDigits(text) == text # <<>> /\ \A i \in DOMAIN text : text[i] \in Digit

\* an optional sign followed by digits
IsSignedDigits(text) ==
    \/ IsDigits(text)
    \/ Len(text) > 1 /\ text[1] \in {"+", "-"} /\ IsDigits(Tail(text))

\* C28: an unsigned string of ASCII digits is never (None, 'integer'): it is
\* boolean ("0", "1"), (timestamp, number) below ten digits, else
\* (phone_number, string) or (credit_card, string); of the sign-and-digit
\* literals only negative ones reach the integer rule.
C28_DigitsNeverInteger ==
    infer_pc = "returned" =>
        /\ IsDigits(InferText) =>
               /\ infer_result # Pair(NoBusinessType, "integer")
               /\ IF InferText \in {<<"0">>, <<"1">>}
                  THEN infer_result = Pair(NoBusinessType, "boolean")
                  ELSE IF Len(InferText) < 10
                  THEN infer_result = Pair("timestamp", "number")
                  ELSE infer_result \in {Pair("phone_number", "string"),
                                         Pair("credit_card", "string")}
        /\ IsSignedDigits(InferText) /\ infer_result = Pair(NoBusinessType, "integer")
               => InferText[1] = "-"

\* "12345" is an int literal and came out as a timestamp
C28_Witness ==
    /\ infer_pc = "returned"
    /\ infer_value = Str(<<"1", "2", "3", "4", "5">>)
    /\ IsDigits(InferText)
    /\ RuleMatches("integer", InferText)
    /\ infer_result = Pair("timestamp", "number")

----------------------------------------------------------------------------
(* _merge_properties and its arguments *)

\* C29: _merge_properties leaves every input property map unchanged, nested
\* items dicts and type / business_type lists included, so merging the same
\* maps again gives the same result.
C29_MergeLeavesInputsUnchanged ==
    "nary" \in done =>
        /\ plistAfter = plist
        /\ MergeProperties(plistAfter, ubt) = nary

----------------------------------------------------------------------------
(* generate_parquet_schema.  A field of the file's schema is its name, the
   text of its type and its nullable flag, as the loop reads them from
   field.name, str(field.type) and field.nullable; a cell of the data frame
   is None or the text _convert_value_to_string gives for its value. *)

\* lines 9-32: type_mapping
type_mapping ==
    (<<"b", "o", "o", "l">> :> "boolean")
        @@ (<<"i", "n", "t", "8">> :> "integer")
        @@ (<<"i", "n", "t", "1", "6">> :> "integer")
        @@ (<<"i", "n", "t", "3", "2">> :> "integer")
        @@ (<<"i", "n", "t", "6", "4">> :> "integer")
        @@ (<<"u", "i", "n", "t", "8">> :> "integer")
        @@ (<<"u", "i", "n", "t", "1", "6">> :> "integer")
        @@ (<<"u", "i", "n", "t", "3", "2">> :> "integer")
        @@ (<<"u", "i", "n", "t", "6", "4">> :> "integer")
        @@ (<<"f", "l", "o", "a", "t", "3", "2">> :> "number")
        @@ (<<"f", "l", "o", "a", "t", "6", "4">> :> "number")
        @@ (<<"d", "o", "u", "b", "l", "e">> :> "number")
        @@ (<<"s", "t", "r", "i", "n", "g">> :> "string")
        @@ (<<"b", "i", "n", "a", "r", "y">> :> "string")
        @@ (<<"d", "a", "t", "e", "3", "2">> :> "date")
        @@ (<<"d", "a", "t", "e", "6", "4">> :> "date")
        @@ (<<"t", "i", "m", "e", "s", "t", "a", "m", "p">> :> "datetime")
        @@ (<<"t", "i", "m", "e", "3", "2">> :> "time")
        @@ (<<"t", "i", "m", "e", "6", "4">> :> "time")

NullPrefix == <<"n", "u", "l", "l">>

\* lines 7-38: _parquet_type_to_json_schema_type
ParquetTypeToJsonSchemaType(parquet_type) ==
    IF Len(parquet_type) >= Len(NullPrefix) /\ SubSeq(parquet_type, 1, Len(NullPrefix)) = NullPrefix
    THEN "null"
    ELSE LET base_type == Lower(Split(Split(parquet_type, "[")[1], "(")[1])
         IN  IF base_type \in DOMAIN type_mapping THEN type_mapping[base_type] ELSE "string"

\* df.head(n): the first n rows, for a negative n all rows but the last -n
DfHead(rows, n) ==
    IF n >= 0 THEN Slice(rows, 1, IF n < Len(rows) THEN n ELSE Len(rows))
    ELSE Slice(rows, 1, Len(rows) + n)

\* line 118: sample_df
SampleDf(rows, n) == IF Len(rows) > n THEN DfHead(rows, n) ELSE rows

\* line 145: the 50 of .head(50)
MaxColumnSamples == 50

\* line 145: sample_df[column_name].dropna().head(50), for the column at position i
ColumnSamples(sample_df, i) ==
    LET column == [r \in DOMAIN sample_df |-> sample_df[r][i]]
        NotNa(cell) == cell # None
    IN  DfHead(SelectSeq(column, NotNa), MaxColumnSamples)

\* the texts of the values of a cell
CellTexts == {<<"x">>, <<"7">>}

\* line 149: infer_types(value_str), for the text of each value a cell holds
InferredCells == [text \in CellTexts |-> InferTypes(Str(text))]

\* lines 144-153: column_data_types[column_name] and column_business_types[column_name]
ParquetDataTypes(samples, use_business_types) ==
    IF use_business_types
    THEN {InferredCells[samples[k].str].data_type : k \in DOMAIN samples}
    ELSE {}

ParquetBusinessTypes(samples, use_business_types) ==
    IF use_business_types
    THEN {InferredCells[samples[k].str].business_type : k \in DOMAIN samples} \ {NoBusinessType}
    ELSE {}

\* lines 157-198: final_type
FinalType(json_type, inferred_types, is_nullable, order) ==
    IF inferred_types = {} \/ inferred_types = {"null"}
    THEN LET t == IF json_type # "null" THEN json_type ELSE "string"
         IN  IF is_nullable THEN List(<<Tag(t), Tag("null")>>) ELSE Tag(t)
    ELSE IF Cardinality(inferred_types) = 1
    THEN LET inferred_type == CHOOSE t \in inferred_types : TRUE
             t == IF inferred_type # json_type /\ inferred_type # "null"
                  THEN inferred_type ELSE json_type
         IN  IF is_nullable THEN List(<<Tag(t), Tag("null")>>) ELSE Tag(t)
    ELSE LET non_null_types == inferred_types \ {"null"}
             listed == ListOfSet(non_null_types, order)
             NotJsonType(t) == t # Tag(json_type)
             type_list == IF non_null_types # {}
                          THEN <<Tag(json_type)>> \o SelectSeq(listed, NotJsonType)
                          ELSE <<Tag(json_type)>>
             with_null == IF (is_nullable \/ "null" \in inferred_types)
                             /\ \A k \in DOMAIN type_list : type_list[k] # Tag("null")
                          THEN Append(type_list, Tag("null"))
                          ELSE type_list
         IN  IF Len(with_null) > 1 THEN List(with_null) ELSE with_null[1]

ParquetTypePrefix == <<" ", "(", "P", "a", "r", "q", "u", "e", "t", " ", "t", "y", "p", "e", ":", " ">>

\* lines 200-219: prop
ParquetProp(field, inferred_types, business_types, order) ==
    LET prop == ("type" :> FinalType(ParquetTypeToJsonSchemaType(field.type), inferred_types,
                                      field.nullable, order))
                    @@ ("description" :> (ColumnPrefix \o field.name \o ParquetTypePrefix
                                             \o field.type \o <<")">>))
                    @@ ("parquet_type" :> field.type)
                    @@ ("nullable" :> field.nullable)
    IN  IF business_types = {} THEN prop
        ELSE Put(prop, "business_type",
                 IF Cardinality(business_types) = 1 THEN ListOfSet(business_types, order)[1]
                 ELSE List(ListOfSet(business_types, order)))

\* lines 221-222 with the test taken from the sample: a column without a
\* null among its sampled cells is required
ParquetRequiredFromSample(required, field, column) ==
    IF \A r \in DOMAIN column : column[r] # None THEN Append(required, field.name) ELSE required

\* lines 221-222: if not is_nullable: required.append(column_name)
ParquetRequired(required, field, column) ==
    IF ~field.nullable THEN Append(required, field.name) ELSE required

\* lines 225-237: schema
ParquetSchema(properties, required, num_rows, num_columns, version) ==
    ("$schema" :> SchemaUri) @@ ("type" :> "object")
        @@ ("properties" :> properties)
        @@ ("required" :> required)
        @@ ("metadata" :> [num_rows |-> num_rows, num_columns |-> num_columns,
                           parquet_schema_version |-> version])

----------------------------------------------------------------------------
(* SpecParquet: generate_parquet_schema over the fields of a file, one
   iteration of the loop of lines 129-222 at a time.  The columns of a file
   are named a, b in their order. *)

ColumnNames == <<ja, jb>>

MaxParquetRows == 2

FieldTypes ==
    {<<"i", "n", "t", "6", "4">>, <<"t", "i", "m", "e", "s", "t", "a", "m", "p", "[", "n", "s", "]">>}

FieldLists ==
    UNION {{[i \in 1..n |-> [name |-> ColumnNames[i], type |-> shape[i][1], nullable |-> shape[i][2]]] :
                shape \in [1..n -> FieldTypes \X BOOLEAN]} : n \in 0..Len(ColumnNames)}

\* the rows a file of these fields can hold: only a nullable field has nulls
ParquetRowsOf(fields) ==
    LET CellsOf(i) == {Str(t) : t \in CellTexts} \cup (IF fields[i].nullable THEN {None} ELSE {})
        Row == {row \in [DOMAIN fields -> {Str(t) : t \in CellTexts} \cup {None}] :
                    \A i \in DOMAIN fields : row[i] \in CellsOf(i)}
    IN  UNION {[1..n -> Row] : n \in 0..MaxParquetRows}

\* format_version of the file's metadata, as str() gives it; None without the attribute
FormatVersions == {None, Str(<<"1", ".", "0">>), Str(<<"2", ".", "6">>)}

\* lines 52-127
ParquetInit ==
    /\ pq_fields \in FieldLists
    /\ pq_rows \in ParquetRowsOf(pq_fields)
    /\ pq_sample_rows \in 1..MaxParquetRows
    /\ pq_business_types \in BOOLEAN
    /\ pq_column_data_types = <<>>
    /\ pq_column_business_types = <<>>
    /\ pq_properties = <<>>
    /\ pq_processed = 0
    /\ pq_required = <<>>
    /\ pq_schema = <<>>
    /\ pq_pc = "columns"
    /\ MergeIdle
    /\ JsonlIdle
    /\ CsvIdle
    /\ InferIdle
    /\ GenerateIdle
    /\ LambdaIdle

\* lines 129-222: one iteration of the loop over the fields
ProcessColumn ==
    /\ pq_pc = "columns"
    /\ pq_processed < Len(pq_fields)
    /\ LET i == pq_processed + 1
           field == pq_fields[i]
           sample_df == SampleDf(pq_rows, pq_sample_rows)
           samples == ColumnSamples(sample_df, i)
       IN  /\ pq_column_data_types' =
                 Put(pq_column_data_types, field.name,
                     ParquetDataTypes(samples, pq_business_types))
           /\ pq_column_business_types' =
                 Put(pq_column_business_types, field.name,
                     ParquetBusinessTypes(samples, pq_business_types))
           /\ \E order \in SetOrders :
                 pq_properties' =
                     Put(pq_properties, field.name,
                         ParquetProp(field, pq_column_data_types'[field.name],
                                     pq_column_business_types'[field.name], order))
           /\ pq_required' =
                 ParquetRequired(pq_required, field, [r \in DOMAIN sample_df |-> sample_df[r][i]])
    /\ pq_processed' = pq_processed + 1
    /\ UNCHANGED <<pq_fields, pq_rows, pq_sample_rows, pq_business_types, pq_schema, pq_pc>>
    /\ UNCHANGED <<mergeVars, jsonlVars, csvVars, inferVars, generateVars, lambdaVars>>

\* lines 224-239: the schema is built and returned
ParquetReturn ==
    /\ pq_pc = "columns"
    /\ pq_processed = Len(pq_fields)
    /\ \E version \in FormatVersions :
          pq_schema' = ParquetSchema(pq_properties, pq_required, Len(pq_rows), Len(pq_fields),
                                     version)
    /\ pq_pc' = "returned"
    /\ UNCHANGED <<pq_fields, pq_rows, pq_sample_rows, pq_business_types, pq_column_data_types,
                   pq_column_business_types, pq_properties, pq_processed, pq_required>>
    /\ UNCHANGED <<mergeVars, jsonlVars, csvVars, inferVars, generateVars, lambdaVars>>

ParquetNext ==
    \/ ProcessColumn
    \/ ParquetReturn

SpecParquet == ParquetInit /\ [][ParquetNext]_vars

\* the cells of the column of field i among the rows that were sampled
SampledCells(i) ==
    LET sample_df == SampleDf(pq_rows, pq_sample_rows)
    IN  {sample_df[r][i] : r \in DOMAIN sample_df}

----------------------------------------------------------------------------
(* detect_file_type and generate_schema.  A file is whether it exists, its
   name, and what detect_file_type finds when it reads it: "parquet" (the
   bytes PAR1 at both ends), "empty" (a blank first line), "object" (a first
   line that is a JSON object), "deep" (a first line json.loads gives up on
   with a RecursionError), "comma" (a first line with a comma that is not a
   JSON object), "other", or "unreadable" (open raises OSError). *)

\* the position of the last "." of a name, 0 without one
LastDot(name) ==
    IF \E i \in DOMAIN name : name[i] = "."
    THEN CHOOSE i \in DOMAIN name : name[i] = "." /\ \A j \in (i + 1)..Len(name) : name[j] # "."
    ELSE 0

\* Path(file_path).suffix and .stem
PathSuffix(name) ==
    LET i == LastDot(name)
    IN  IF 1 < i /\ i < Len(name) THEN Slice(name, i, Len(name)) ELSE <<>>

PathStem(name) == Slice(name, 1, Len(name) - Len(PathSuffix(name)))

\* s.endswith(t)
EndsWithText(s, t) == Len(s) >= Len(t) /\ Slice(s, Len(s) - Len(t) + 1, Len(s)) = t

CsvExtensions == {<<".", "c", "s", "v">>}

JsonlExtensions == {<<".", "j", "s", "o", "n", "l">>, <<".", "j", "s", "o", "n", "l", "i", "n", "e", "s">>, <<".", "n", "d", "j", "s", "o", "n">>}

ParquetExtensions == {<<".", "p", "a", "r", "q", "u", "e", "t">>, <<".", "p", "a", "r", "q">>}

Returns(value) == [returns |-> value]

Raises(error) == [raises |-> error]

\* lines 44-95: the content-based detection
DetectByContent(file) ==
    CASE file.content = "unreadable" -> Raises("ValueError")
      [] file.content = "parquet" -> Returns("parquet")
      [] file.content = "empty" -> Raises("ValueError")
      [] file.content = "object" -> Returns("jsonl")
      [] file.content = "deep" -> Raises("RecursionError")
      [] file.content = "comma" -> Returns("csv")
      [] OTHER -> Raises("ValueError")

\* lines 11-102: detect_file_type
DetectFileType(file) ==
    LET extension == Lower(PathSuffix(file.name))
    IN  IF ~file.exists THEN Raises("FileNotFoundError")
        ELSE IF extension \in CsvExtensions THEN Returns("csv")
        ELSE IF extension \in JsonlExtensions THEN Returns("jsonl")
        ELSE IF extension \in ParquetExtensions THEN Returns("parquet")
        ELSE IF extension = <<".", "g", "z">>
                /\ \E e \in JsonlExtensions : EndsWithText(Lower(PathStem(file.name)), e)
        THEN Returns("jsonl")
        ELSE DetectByContent(file)

\* the texts 'csv', 'jsonl', 'parquet' of line 156
SupportedTypes ==
    (<<"c", "s", "v">> :> "csv") @@ (<<"j", "s", "o", "n", "l">> :> "jsonl") @@ (<<"p", "a", "r", "q", "u", "e", "t">> :> "parquet")

\* lines 152-160: the file type generate_schema routes on
ResolvedFileType(file, file_type) ==
    IF file_type = None THEN DetectFileType(file)
    ELSE IF Lower(file_type.str) \in DOMAIN SupportedTypes
    THEN Returns(SupportedTypes[Lower(file_type.str)])
    ELSE Raises("ValueError")

----------------------------------------------------------------------------
(* SpecGenerate: one call of generate_schema, from the test of file_type to
   the return of the generator it routes to.  The generator's steps are the
   actions of SpecJsonl, SpecCsv and SpecParquet. *)

Files ==
    {[exists |-> FALSE, name |-> <<"d", ".", "c", "s", "v">>, content |-> "comma"]}
        \cup {[exists |-> TRUE, name |-> f[1], content |-> f[2]] : f \in
                { <<<<"d", ".", "c", "s", "v">>, "comma">>,
                  <<<<"d", ".", "n", "d", "j", "s", "o", "n">>, "object">>,
                  <<<<"d", ".", "p", "a", "r", "q">>, "parquet">>,
                  <<<<"d", ".", "j", "s", "o", "n", "l", ".", "g", "z">>, "other">>,
                  <<<<"d", ".", "t", "a", "r", ".", "g", "z">>, "other">>,
                  <<<<"d", ".", "t", "x", "t">>, "parquet">>,
                  <<<<"d", ".", "t", "x", "t">>, "empty">>,
                  <<<<"d", ".", "t", "x", "t">>, "object">>,
                  <<<<"d", ".", "t", "x", "t">>, "deep">>,
                  <<<<"d", ".", "t", "x", "t">>, "comma">>,
                  <<<<"d", ".", "t", "x", "t">>, "other">>,
                  <<<<"d", ".", "t", "x", "t">>, "unreadable">>,
                  <<<<"d", ".", "T", "X", "T">>, "comma">> }}

\* the file_type arguments: None, 'csv', 'JSONL', 'parquet', 'xml'
FileTypeArguments == {None, Str(<<"c", "s", "v">>), Str(<<"J", "S", "O", "N", "L">>), Str(<<"p", "a", "r", "q", "u", "e", "t">>), Str(<<"x", "m", "l">>)}

\* an explicit file_type is tried on an existing and on a missing file
ExplicitFiles == {[exists |-> e, name |-> <<"d", ".", "t", "x", "t">>, content |-> "comma"] : e \in BOOLEAN}

\* lines 105-151
GenerateInit ==
    /\ gs_file_type \in FileTypeArguments
    /\ gs_file \in IF gs_file_type = None THEN Files ELSE ExplicitFiles
    /\ gs_pyarrow \in BOOLEAN
    /\ gs_sample_rows \in -1..1
    /\ gs_business_types \in BOOLEAN
    /\ gs_route = ""
    /\ gs_result = <<>>
    /\ gs_error = ""
    /\ gs_pc = "called"
    /\ MergeIdle
    /\ JsonlIdle
    /\ CsvIdle
    /\ InferIdle
    /\ ParquetIdle
    /\ LambdaIdle

\* lines 152-160: file_type is detected or checked
ResolveFileType ==
    /\ gs_pc = "called"
    /\ LET resolved == ResolvedFileType(gs_file, gs_file_type)
       IN  IF "returns" \in DOMAIN resolved
           THEN /\ gs_route' = resolved.returns
                /\ gs_pc' = "resolved"
                /\ UNCHANGED gs_error
           ELSE /\ gs_error' = resolved.raises
                /\ gs_pc' = "raised"
                /\ UNCHANGED gs_route
    /\ UNCHANGED <<gs_file, gs_pyarrow, gs_file_type, gs_sample_rows, gs_business_types, gs_result>>
    /\ UNCHANGED <<mergeVars, jsonlVars, csvVars, inferVars, parquetVars, lambdaVars>>

\* lines 163-166: generate_csv_schema(file_path, sample_rows=sample_rows)
RouteCsv ==
    /\ gs_pc = "resolved"
    /\ gs_route = "csv"
    /\ gs_file.exists
    /\ headers' \in {<<ja>>, ScenarioHeaders}
    /\ csv_sample_rows' = gs_sample_rows
    /\ csv_lines' = 0
    /\ csv_row_count' = 0
    /\ column_business_types' = [header \in {headers'[i] : i \in DOMAIN headers'} |-> {}]
    /\ column_data_types' = [header \in {headers'[i] : i \in DOMAIN headers'} |-> {}]
    /\ sampled' = [header \in {headers'[i] : i \in DOMAIN headers'} |-> {}]
    /\ csv_schema' = <<>>
    /\ csv_pc' = "reading"
    /\ gs_pc' = "generating"
    /\ UNCHANGED <<gs_file, gs_pyarrow, gs_file_type, gs_sample_rows, gs_business_types,
                   gs_route, gs_result, gs_error>>
    /\ UNCHANGED <<mergeVars, jsonlVars, inferVars, parquetVars, lambdaVars>>

\* lines 168-173: generate_jsonl_schema(file_path, sample_rows, use_business_types)
RouteJsonl ==
    /\ gs_pc = "resolved"
    /\ gs_route = "jsonl"
    /\ gs_file.exists
    /\ pool' = ScenarioRecords
    /\ lines' = <<>>
    /\ sample_rows' = gs_sample_rows
    /\ jsonl_business_types' = gs_business_types
    /\ row_count' = 0
    /\ total_rows' = 0
    /\ object_schemas' = <<>>
    /\ all_field_presence' = <<>>
    /\ schema' = EmptyDict
    /\ pc' = "reading"
    /\ gs_pc' = "generating"
    /\ UNCHANGED <<gs_file, gs_pyarrow, gs_file_type, gs_sample_rows, gs_business_types,
                   gs_route, gs_result, gs_error>>
    /\ UNCHANGED <<mergeVars, csvVars, inferVars, parquetVars, lambdaVars>>

\* the fields of the parquet files generate_schema is tried on
RoutedFields ==
    << [name |-> ja, type |-> <<"i", "n", "t", "6", "4">>, nullable |-> TRUE],
       [name |-> jb, type |-> <<"i", "n", "t", "6", "4">>, nullable |-> FALSE] >>

\* lines 175-180: generate_parquet_schema(file_path, sample_rows, use_business_types)
RouteParquet ==
    /\ gs_pc = "resolved"
    /\ gs_route = "parquet"
    /\ gs_pyarrow
    /\ gs_file.exists
    /\ pq_fields' = RoutedFields
    /\ pq_rows' \in ParquetRowsOf(RoutedFields)
    /\ pq_sample_rows' = gs_sample_rows
    /\ pq_business_types' = gs_business_types
    /\ pq_column_data_types' = <<>>
    /\ pq_column_business_types' = <<>>
    /\ pq_properties' = <<>>
    /\ pq_processed' = 0
    /\ pq_required' = <<>>
    /\ pq_schema' = <<>>
    /\ pq_pc' = "columns"
    /\ gs_pc' = "generating"
    /\ UNCHANGED <<gs_file, gs_pyarrow, gs_file_type, gs_sample_rows, gs_business_types,
                   gs_route, gs_result, gs_error>>
    /\ UNCHANGED <<mergeVars, jsonlVars, csvVars, inferVars, lambdaVars>>

\* parquet lines 101-107: without pyarrow the parquet generator raises ImportError
RouteParquetWithoutPyarrow ==
    /\ gs_pc = "resolved"
    /\ gs_route = "parquet"
    /\ ~gs_pyarrow
    /\ gs_error' = "ImportError"
    /\ gs_pc' = "raised"
    /\ UNCHANGED <<gs_file, gs_pyarrow, gs_file_type, gs_sample_rows, gs_business_types,
                   gs_route, gs_result>>
    /\ UNCHANGED <<mergeVars, jsonlVars, csvVars, inferVars, parquetVars, lambdaVars>>

\* the generator opens a file that does not exist
RouteMissingFile ==
    /\ gs_pc = "resolved"
    /\ ~gs_file.exists
    /\ gs_route = "parquet" => gs_pyarrow
    /\ gs_error' = "FileNotFoundError"
    /\ gs_pc' = "raised"
    /\ UNCHANGED <<gs_file, gs_pyarrow, gs_file_type, gs_sample_rows, gs_business_types,
                   gs_route, gs_result>>
    /\ UNCHANGED <<mergeVars, jsonlVars, csvVars, inferVars, parquetVars, lambdaVars>>

\* lines 166, 169 and 176: the generator's schema is returned
GenerateReturns ==
    /\ gs_pc = "generating"
    /\ \/ pc = "returned" /\ gs_result' = schema
       \/ csv_pc = "returned" /\ gs_result' = csv_schema
       \/ pq_pc = "returned" /\ gs_result' = pq_schema
    /\ gs_pc' = "returned"
    /\ UNCHANGED <<gs_file, gs_pyarrow, gs_file_type, gs_sample_rows, gs_business_types,
                   gs_route, gs_error>>
    /\ UNCHANGED <<mergeVars, jsonlVars, csvVars, inferVars, parquetVars, lambdaVars>>

\* line 169: the exception that left generate_jsonl_schema leaves generate_schema
GenerateRaises ==
    /\ gs_pc = "generating"
    /\ pc = "raised"
    /\ gs_error' = lines[Len(lines)].undecodable
    /\ gs_pc' = "raised"
    /\ UNCHANGED <<gs_file, gs_pyarrow, gs_file_type, gs_sample_rows, gs_business_types,
                   gs_route, gs_result>>
    /\ UNCHANGED <<mergeVars, jsonlVars, csvVars, inferVars, parquetVars, lambdaVars>>

GenerateNext ==
    \/ ResolveFileType
    \/ RouteCsv
    \/ RouteJsonl
    \/ RouteParquet
    \/ RouteParquetWithoutPyarrow
    \/ RouteMissingFile
    \/ GenerateReturns
    \/ GenerateRaises
    \/ ReadBlank
    \/ ReadMalformed
    \/ ReadNonObject
    \/ ReadObject
    \/ ReadUndecodable
    \/ Break
    \/ Return
    \/ SkipBlankRow
    \/ ReadRow
    \/ CsvBreak
    \/ CsvReturn
    \/ ProcessColumn
    \/ ParquetReturn

SpecGenerate == GenerateInit /\ [][GenerateNext]_vars

\* C21: generate_schema called with sample_rows < 1 never returns a schema,
\* whatever the source kind (the call is to end in a ValueError instead)
C21_NonPositiveSampleRowsRejected ==
    gs_pc # "idle" /\ gs_sample_rows < 1 => gs_pc # "returned"

----------------------------------------------------------------------------
(* lambda_handler.  An event is a dict of some of the keys file_path,
   sample_rows, use_business_types and file_type, or None for an event that
   is not a dict; a value is a str, an int or a bool. *)

PyInt(n) == [int |-> n]

PyBool(b) == [bool |-> b]

IsStr(v) == "str" \in DOMAIN v

\* isinstance(v, int): a bool is an int
IsInt(v) == "int" \in DOMAIN v \/ "bool" \in DOMAIN v

IntValue(v) == IF "int" \in DOMAIN v THEN v.int ELSE IF v.bool THEN 1 ELSE 0

\* line 90: the default of sample_rows
DefaultSampleRows == 100

\* event.get(key, default)
EventGet(event, key, default) == IF key \in DOMAIN event THEN event[key] ELSE default

\* not v
Falsy(v) == v = None \/ v = Str(<<>>) \/ v = PyInt(0) \/ v = PyBool(FALSE)

S3Prefix == <<"s", "3", ":", "/", "/">>

\* s.startswith('s3://')
IsS3Uri(path) == Len(path) >= Len(S3Prefix) /\ SubSeq(path, 1, Len(S3Prefix)) = S3Prefix

\* lines 84-103: the parameters of a request, or the exception that rejects it
Validate(event) ==
    IF event = None THEN [raises |-> "AttributeError", error |-> "'NoneType' object has no attribute 'get'"]
    ELSE LET file_path == EventGet(event, "file_path", None)
             rows == EventGet(event, "sample_rows", PyInt(DefaultSampleRows))
             use_business_types == EventGet(event, "use_business_types", PyBool(TRUE))
             file_type == EventGet(event, "file_type", None)
         IN  IF Falsy(file_path)
             THEN [raises |-> "ValueError", error |-> "Missing required parameter: file_path"]
             ELSE IF ~IsInt(rows) \/ IntValue(rows) < 1
             THEN [raises |-> "ValueError", error |-> "sample_rows must be a positive integer"]
             ELSE IF "bool" \notin DOMAIN use_business_types
             THEN [raises |-> "ValueError", error |-> "use_business_types must be a boolean"]
             ELSE IF ~IsStr(file_path)
             THEN [raises |-> "AttributeError", error |-> "'int' object has no attribute 'startswith'"]
             ELSE Returns([file_path |-> file_path.str, sample_rows |-> IntValue(rows),
                           use_business_types |-> use_business_types.bool,
                           file_type |-> file_type])

FileText == <<"f", "i", "l", "e">>

\* os.path.basename(path)
Basename(path) == LET parts == Split(path, "/") IN parts[Len(parts)]

\* lines 107-108: file_name
TempFileName(file_path) ==
    IF HasChar(Slice(file_path, Len(S3Prefix) + 1, Len(file_path)), "/")
    THEN IF Basename(file_path) = <<>> THEN FileText ELSE Basename(file_path)
    ELSE FileText

\* lines 21-45: download_from_s3 creates the local file, or raises
DownloadFromS3(s3_uri, boto3, object) ==
    IF ~boto3 THEN [raises |-> "ImportError", error |-> "boto3 is required for S3 support."]
    ELSE IF Len(Split(Slice(s3_uri, Len(S3Prefix) + 1, Len(s3_uri)), "/")) < 2
    THEN [raises |-> "ValueError", error |-> "Invalid S3 URI format"]
    ELSE IF ~object.exists THEN [raises |-> "ClientError", error |-> "Not Found"]
    ELSE Returns(object)

\* lines 142-168: status_code of each except clause
StatusOf(error_type) ==
    CASE error_type = "ValueError" -> 400
      [] error_type = "FileNotFoundError" -> 404
      [] OTHER -> 500

\* lines 144-147, 151-154, 158-161 and 165-168
ErrorBody(error, error_type) == [error |-> error, error_type |-> error_type]

----------------------------------------------------------------------------
(* SpecLambda: one invocation of lambda_handler; its call of generate_schema
   is the steps of SpecGenerate. *)

LocalPath == <<"d", ".", "c", "s", "v">>

Absent == [absent |-> TRUE]

\* the dict with the keys that are given
Event(file_path, rows, use_business_types, file_type) ==
    LET given == [file_path |-> file_path, sample_rows |-> rows,
                  use_business_types |-> use_business_types, file_type |-> file_type]
    IN  [key \in {k \in DOMAIN given : given[k] # Absent} |-> given[key]]

Events ==
    {None} \cup
    { Event(file_path, rows, use_business_types, file_type) :
        file_path \in {Absent, Str(<<>>), PyInt(5), Str(LocalPath),
                       Str(S3Prefix \o <<"b", "/">> \o LocalPath), Str(S3Prefix \o <<"b">>)},
        rows \in {Absent, PyInt(0), PyInt(1), Str(<<"1">>)},
        use_business_types \in {Absent, PyBool(FALSE), Str(<<"y", "e", "s">>)},
        file_type \in {Absent, Str(<<"j", "s", "o", "n", "l">>), Str(<<"p", "a", "r", "q", "u", "e", "t">>), Str(<<"x", "m", "l">>)} }

\* lines 48-82
LambdaInit ==
    /\ lam_event \in Events
    /\ lam_source \in {[exists |-> e, name |-> LocalPath, content |-> "comma"] : e \in BOOLEAN}
    /\ lam_boto3 \in BOOLEAN
    /\ lam_temp_file_path = None
    /\ lam_temp_dir = FALSE
    /\ lam_temp_file = FALSE
    /\ lam_status = 200
    /\ lam_body = <<>>
    /\ lam_pc = "called"
    /\ MergeIdle
    /\ JsonlIdle
    /\ CsvIdle
    /\ InferIdle
    /\ ParquetIdle
    /\ GenerateIdle

\* lines 84-103 and 142-192: a parameter is rejected
LambdaRejects ==
    /\ lam_pc = "called"
    /\ "raises" \in DOMAIN Validate(lam_event)
    /\ lam_status' = StatusOf(Validate(lam_event).raises)
    /\ lam_body' = ErrorBody(Validate(lam_event).error, Validate(lam_event).raises)
    /\ lam_pc' = "returned"
    /\ UNCHANGED <<lam_event, lam_source, lam_boto3, lam_temp_file_path, lam_temp_dir, lam_temp_file>>
    /\ UNCHANGED <<mergeVars, jsonlVars, csvVars, inferVars, parquetVars, generateVars>>

\* lines 119-124: generate_schema is called on the file
CallGenerate(file, request) ==
    /\ gs_file' = file
    /\ gs_pyarrow' \in BOOLEAN
    /\ gs_file_type' = request.file_type
    /\ gs_sample_rows' = request.sample_rows
    /\ gs_business_types' = request.use_business_types
    /\ gs_route' = ""
    /\ gs_result' = <<>>
    /\ gs_error' = ""
    /\ gs_pc' = "called"

\* lines 84-124: a local file_path
LambdaLocal ==
    /\ lam_pc = "called"
    /\ "returns" \in DOMAIN Validate(lam_event)
    /\ ~IsS3Uri(Validate(lam_event).returns.file_path)
    /\ CallGenerate(lam_source, Validate(lam_event).returns)
    /\ lam_pc' = "generating"
    /\ UNCHANGED <<lam_event, lam_source, lam_boto3, lam_temp_file_path, lam_temp_dir, lam_temp_file,
                   lam_status, lam_body>>
    /\ UNCHANGED <<mergeVars, jsonlVars, csvVars, inferVars, parquetVars>>

\* lines 84-124: an s3:// file_path whose object is downloaded
LambdaDownloads ==
    /\ lam_pc = "called"
    /\ "returns" \in DOMAIN Validate(lam_event)
    /\ LET request == Validate(lam_event).returns
           download == DownloadFromS3(request.file_path, lam_boto3, lam_source)
       IN  /\ IsS3Uri(request.file_path)
           /\ "returns" \in DOMAIN download
           /\ lam_temp_dir' = TRUE
           /\ lam_temp_file_path' = Str(TempFileName(request.file_path))
           /\ lam_temp_file' = TRUE
           /\ CallGenerate([download.returns EXCEPT !.name = TempFileName(request.file_path)],
                           request)
    /\ lam_pc' = "generating"
    /\ UNCHANGED <<lam_event, lam_source, lam_boto3, lam_status, lam_body>>
    /\ UNCHANGED <<mergeVars, jsonlVars, csvVars, inferVars, parquetVars>>

\* lines 170-183: what the finally clause leaves of the temporary directory and file
CleanedUp(temp_file_path, temp_dir, temp_file) ==
    IF temp_file_path # None /\ temp_file
    THEN [temp_dir |-> FALSE, temp_file |-> FALSE]
    ELSE [temp_dir |-> temp_dir, temp_file |-> temp_file]

\* lines 84-112 and 142-192: an s3:// file_path whose download raises
LambdaDownloadFails ==
    /\ lam_pc = "called"
    /\ "returns" \in DOMAIN Validate(lam_event)
    /\ LET request == Validate(lam_event).returns
           download == DownloadFromS3(request.file_path, lam_boto3, lam_source)
           temp_file_path == Str(TempFileName(request.file_path))
       IN  /\ IsS3Uri(request.file_path)
           /\ "raises" \in DOMAIN download
           /\ lam_temp_file_path' = temp_file_path
           /\ lam_temp_dir' = CleanedUp(temp_file_path, TRUE, FALSE).temp_dir
           /\ lam_temp_file' = CleanedUp(temp_file_path, TRUE, FALSE).temp_file
           /\ lam_status' = StatusOf(download.raises)
           /\ lam_body' = ErrorBody(download.error, download.raises)
    /\ lam_pc' = "returned"
    /\ UNCHANGED <<lam_event, lam_source, lam_boto3>>
    /\ UNCHANGED <<mergeVars, jsonlVars, csvVars, inferVars, parquetVars, generateVars>>

\* lines 126-140 and 170-192: generate_schema returned
LambdaResponds ==
    /\ lam_pc = "generating"
    /\ gs_pc = "returned"
    /\ LET request == Validate(lam_event).returns
       IN  lam_body' = [schema |-> gs_result,
                        file_path |-> request.file_path,
                        file_type |-> IF request.file_type = None
                                      THEN DetectFileType(gs_file).returns
                                      ELSE request.file_type.str,
                        sample_rows |-> request.sample_rows,
                        use_business_types |-> request.use_business_types]
    /\ lam_temp_dir' = CleanedUp(lam_temp_file_path, lam_temp_dir, lam_temp_file).temp_dir
    /\ lam_temp_file' = CleanedUp(lam_temp_file_path, lam_temp_dir, lam_temp_file).temp_file
    /\ lam_pc' = "returned"
    /\ UNCHANGED <<lam_event, lam_source, lam_boto3, lam_temp_file_path, lam_status>>
    /\ UNCHANGED <<mergeVars, jsonlVars, csvVars, inferVars, parquetVars, generateVars>>

\* lines 119-124 and 142-192: generate_schema raised; the text of the
\* exception is not followed through the generators, its type stands for it
LambdaFails ==
    /\ lam_pc = "generating"
    /\ gs_pc = "raised"
    /\ lam_status' = StatusOf(gs_error)
    /\ lam_body' = ErrorBody(gs_error, gs_error)
    /\ lam_temp_dir' = CleanedUp(lam_temp_file_path, lam_temp_dir, lam_temp_file).temp_dir
    /\ lam_temp_file' = CleanedUp(lam_temp_file_path, lam_temp_dir, lam_temp_file).temp_file
    /\ lam_pc' = "returned"
    /\ UNCHANGED <<lam_event, lam_source, lam_boto3, lam_temp_file_path>>
    /\ UNCHANGED <<mergeVars, jsonlVars, csvVars, inferVars, parquetVars, generateVars>>

LambdaNext ==
    \/ LambdaRejects
    \/ LambdaLocal
    \/ LambdaDownloads
    \/ LambdaDownloadFails
    \/ LambdaResponds
    \/ LambdaFails
    \/ ResolveFileType
    \/ RouteCsv
    \/ RouteJsonl
    \/ RouteParquet
    \/ RouteParquetWithoutPyarrow
    \/ RouteMissingFile
    \/ GenerateReturns
    \/ GenerateRaises
    \/ ReadBlank
    \/ ReadMalformed
    \/ ReadNonObject
    \/ ReadObject
    \/ ReadUndecodable
    \/ Break
    \/ Return
    \/ SkipBlankRow
    \/ ReadRow
    \/ CsvBreak
    \/ CsvReturn
    \/ ProcessColumn
    \/ ParquetReturn

SpecLambda == LambdaInit /\ [][LambdaNext]_vars

\* C22: every invocation ends in a response that is either statusCode 200
\* with a body holding schema (generation succeeded), or statusCode 400 or
\* 500 with a body holding error and error_type
C22_ResponseIs200Or400Or500 ==
    lam_pc = "returned" =>
        \/ lam_status = 200 /\ "schema" \in DOMAIN lam_body /\ gs_pc = "returned"
        \/ lam_status \in {400, 500} /\ {"error", "error_type"} \subseteq DOMAIN lam_body

\* the request named an s3:// file_path
S3Request ==
    /\ lam_event # None
    /\ "file_path" \in DOMAIN lam_event
    /\ IsStr(lam_event["file_path"])
    /\ IsS3Uri(lam_event["file_path"].str)

\* C30: when lambda_handler has returned from an s3:// request, neither the
\* temporary file nor the temporary directory it created remains, whether
\* the download failed, the generation failed or it succeeded
C30_NoTemporaryFileOrDirectoryRemains ==
    lam_pc = "returned" /\ S3Request => ~lam_temp_file /\ ~lam_temp_dir

====
